---- MODULE Spec2Model ----
(***************************************************************************)
(* Model of the fingering engine: the rule-based cost model                *)
(* (src/src/fingering_engine/cost_model.py) and the dynamic-programming    *)
(* solver (src/src/fingering_engine/solver.py).                            *)
(*                                                                         *)
(* Numbers.  The code computes costs in Python floats.  The model keeps    *)
(* them as fixed-point numbers with one binary fraction digit: the integer *)
(* k stands for the float k/2.  Every configuration value the model draws  *)
(* is a whole number, so every float the code produces on these inputs is  *)
(* a multiple of 0.5 and float arithmetic on them is exact.  The one        *)
(* exception is the weight 2^57 (HugeWeight): sums with it exceed the 53    *)
(* bits of a float and are rounded, see Fl.                                 *)
(*                                                                         *)
(* Indices are 0-based as in the code: a list of length n is a function    *)
(* with domain 0..n-1 and the empty list is <<>>.                          *)
(***************************************************************************)
EXTENDS Integers, Sequences, FiniteSets, TLC

VARIABLES
    notes,      \* notes[c]   : argument `notes` of call c of solve
    config,     \* config[c]  : the file at `config_path` of call c
    pc,         \* pc[c]      : position of call c in solve
    cm,         \* cm[c]      : local `cost_model` of call c
    dp,         \* dp[c]      : local DP table of call c
    bp,         \* bp[c]      : local backpointer table of call c
    idx,        \* idx[c]     : loop variable `i` of call c
    path,       \* path[c]    : local `path` of call c
    result,     \* result[c]  : value returned by call c
    exc,        \* exc[c]     : exception that ended call c
    ncalls,     \* ncalls[c]  : cost-model method calls made by call c so far
    probe,      \* last direct call of a cost-model method, with its outcome
    tr          \* the arguments, locals and outcome of the call of train

vars == <<notes, config, pc, cm, dp, bp, idx, path, result, exc, ncalls, probe, tr>>

----------------------------------------------------------------------------
(* Bounds *)

MaxLen == 3

----------------------------------------------------------------------------
(* Python values *)

\* float(v) of a whole number v, in halves
Float(v) == v + v

\* x * 0.5 of a float x that is a whole number
Half(x) == x \div 2

\* Floats beyond the exact range.  The only such floats the model meets are
\* a * 2^57 + b with a small whole number a >= 1 and a small b >= 0.  The
\* integer a * Wide + b' (b' the number of halves of b) stands for that
\* float: sums and comparisons of such integers are the sums and comparisons
\* of the floats they stand for.
Wide == 2 ^ 26

\* the configuration value 2^57 (144115188075855872)
HugeWeight == Wide \div 2

RECURSIVE Log2(_)
Log2(a) == IF a <= 1 THEN 0 ELSE 1 + Log2(a \div 2)

\* the spacing, in halves, of the floats in [a * 2^57, (a + 1) * 2^57): a
\* float has 53 bits, so the spacing at 2^57 is 2^5
Ulp(a) == 64 * (2 ^ Log2(a))

\* the float nearest to the exact result x of an operation (round to
\* nearest, ties to even); exact below 2^53, so for every x < Wide
Fl(x) ==
    IF x < Wide
    THEN x
    ELSE LET a    == x \div Wide
             b    == x % Wide
             u    == Ulp(a)
             q    == b \div u
             r    == b % u
             down == q * u
         IN  a * Wide + (IF 2 * r < u THEN down
                         ELSE IF 2 * r > u THEN down + u
                         ELSE IF q % 2 = 0 THEN down ELSE down + u)

\* math.inf: larger than every cost the bounded model can reach
Inf == 1000000000

\* None, where a (hand, finger) tuple is expected
None == <<>>

NoExc == [type |-> "none", key |-> ""]

Raise(t, k) == [type |-> t, key |-> k]

Abs(x) == IF x < 0 THEN 0 - x ELSE x

\* sorted([a, b])
Sorted2(a, b) == IF a <= b THEN <<a, b>> ELSE <<b, a>>

\* f"{lo}_{hi}"
PairKey(lo, hi) == ToString(lo) \o "_" \o ToString(hi)

\* d.get(k), with None rendered as the default dflt
Get(d, k, dflt) == IF k \in DOMAIN d THEN d[k] ELSE dflt

----------------------------------------------------------------------------
(* solver.py module constants *)

HANDS == <<"L", "R">>

FINGERS == <<1, 2, 3, 4, 5>>

Range(s) == {s[k] : k \in DOMAIN s}

\* the (hand, finger) keys in the order of the nested loops
\* `for hand in HANDS: for finger in FINGERS`
StateOrder ==
    [k \in 1..(Len(HANDS) * Len(FINGERS)) |->
        <<HANDS[((k - 1) \div Len(FINGERS)) + 1],
          FINGERS[((k - 1) % Len(FINGERS)) + 1]>>]

StateKeys == Range(StateOrder)

----------------------------------------------------------------------------
(* cost_model.py : FingeringCostModel *)

required_keys ==
    << "max_comfortable_span", "stretch_weight", "crossing_weight",
       "repetition_weight", "hand_switch_weight", "chord_penalty_weight",
       "weak_finger_weight", "split_pitch" >>

NoModel == [constructed |-> FALSE]

\* variant: nothing is validated, an absent key gets a default value
FingeringCostModel_Defaults(file) ==
    IF ~file.exists
    THEN [exc |-> Raise("FileNotFoundError", ""), obj |-> NoModel]
    ELSE LET cfg == file.content
         IN  [exc |-> NoExc,
              obj |-> [constructed          |-> TRUE,
                       max_comfortable_span |-> Get(cfg, "max_comfortable_span", <<>>),
                       stretch_weight       |-> Float(Get(cfg, "stretch_weight", 1)),
                       crossing_weight      |-> Float(Get(cfg, "crossing_weight", 1)),
                       repetition_weight    |-> Float(Get(cfg, "repetition_weight", 1)),
                       hand_switch_weight   |-> Float(Get(cfg, "hand_switch_weight", 1)),
                       chord_penalty_weight |-> Float(Get(cfg, "chord_penalty_weight", 1)),
                       weak_finger_weight   |-> Float(Get(cfg, "weak_finger_weight", 1)),
                       split_pitch          |-> Get(cfg, "split_pitch", 60)]]

\* first required key absent from the loaded mapping, 0 if none
FirstMissing(cfg) ==
    IF \E k \in DOMAIN required_keys : required_keys[k] \notin DOMAIN cfg
    THEN CHOOSE k \in DOMAIN required_keys :
            /\ required_keys[k] \notin DOMAIN cfg
            /\ \A j \in 1..(k - 1) : required_keys[j] \in DOMAIN cfg
    ELSE 0

\* FingeringCostModel(config_path): the exception raised, and the object
FingeringCostModel(file) ==
    IF ~file.exists
    THEN [exc |-> Raise("FileNotFoundError", ""), obj |-> NoModel]
    ELSE LET cfg == file.content
             m   == FirstMissing(cfg)
         IN  IF m # 0
             THEN [exc |-> Raise("ValueError", required_keys[m]), obj |-> NoModel]
             ELSE [exc |-> NoExc,
                   obj |-> [constructed          |-> TRUE,
                            max_comfortable_span |-> cfg["max_comfortable_span"],
                            stretch_weight       |-> Float(cfg["stretch_weight"]),
                            crossing_weight      |-> Float(cfg["crossing_weight"]),
                            repetition_weight    |-> Float(cfg["repetition_weight"]),
                            hand_switch_weight   |-> Float(cfg["hand_switch_weight"]),
                            chord_penalty_weight |-> Float(cfg["chord_penalty_weight"]),
                            weak_finger_weight   |-> Float(cfg["weak_finger_weight"]),
                            split_pitch          |-> cfg["split_pitch"]]]

\* variant: the key is built from the fingers in argument order
SpanKey_Unsorted(finger_a, finger_b) == PairKey(finger_a, finger_b)

\* the span-table key stretch_cost looks up
SpanKey(finger_a, finger_b) ==
    LET s == Sorted2(finger_a, finger_b) IN PairKey(s[1], s[2])

\* stretch_cost raises ValueError
stretch_cost_raises(self, finger_a, finger_b) ==
    /\ finger_a # finger_b
    /\ SpanKey(finger_a, finger_b) \notin DOMAIN self.max_comfortable_span

\* variant: an interval inside the span is not clamped to zero
stretch_cost_NoClamp(self, finger_a, finger_b, interval) ==
    IF finger_a = finger_b
    THEN 0
    ELSE LET max_span == self.max_comfortable_span[SpanKey(finger_a, finger_b)]
             excess   == interval - max_span
         IN  excess * self.stretch_weight

\* value stretch_cost returns when it does not raise
stretch_cost(self, finger_a, finger_b, interval) ==
    IF finger_a = finger_b
    THEN 0
    ELSE LET max_span == self.max_comfortable_span[SpanKey(finger_a, finger_b)]
             excess   == interval - max_span
         IN  IF excess <= 0 THEN 0 ELSE excess * self.stretch_weight

\* variant: the equal-pitch case is not exempted
crossing_cost_NoPitchCheck(self, finger_a, finger_b, pitch_a, pitch_b) ==
    LET pitch_up  == pitch_b > pitch_a
        finger_up == finger_b > finger_a
    IN  IF finger_a = finger_b
        THEN 0
        ELSE IF pitch_up # finger_up THEN self.crossing_weight ELSE 0

crossing_cost(self, finger_a, finger_b, pitch_a, pitch_b) ==
    LET pitch_up  == pitch_b > pitch_a
        finger_up == finger_b > finger_a
    IN  IF finger_a = finger_b \/ pitch_a = pitch_b
        THEN 0
        ELSE IF pitch_up # finger_up THEN self.crossing_weight ELSE 0

\* variant: a repeated note is charged too
repetition_cost_AnyPitch(self, finger_a, finger_b, pitch_a, pitch_b) ==
    IF finger_a = finger_b THEN self.repetition_weight ELSE 0

repetition_cost(self, finger_a, finger_b, pitch_a, pitch_b) ==
    IF finger_a = finger_b /\ pitch_a # pitch_b
    THEN self.repetition_weight
    ELSE 0

hand_switch_cost(self, hand_a, hand_b) ==
    IF hand_a # hand_b THEN self.hand_switch_weight ELSE 0

\* variant: the penalty starts at five notes
chord_penalty_From5(self, chord_size) ==
    LET excess == chord_size - 4
    IN  IF excess <= 0 THEN 0 ELSE excess * self.chord_penalty_weight

chord_penalty(self, chord_size) ==
    LET excess == chord_size - 5
    IN  IF excess <= 0 THEN 0 ELSE Fl(excess * self.chord_penalty_weight)

weak_finger_cost(self, finger) ==
    IF finger \in {4, 5} THEN self.weak_finger_weight ELSE 0

\* total_cost raises ValueError (from stretch_cost)
total_cost_raises(self, finger_a, finger_b, hand_a, hand_b) ==
    hand_a = hand_b /\ stretch_cost_raises(self, finger_a, finger_b)

\* variant: crossing and repetition are charged across a hand switch too
total_cost_AllTerms(self, finger_a, finger_b, pitch_a, pitch_b, hand_a, hand_b, chord_size) ==
    LET interval == Abs(pitch_b - pitch_a)
        stretch  == IF hand_a = hand_b
                    THEN stretch_cost(self, finger_a, finger_b, interval)
                    ELSE 0
    IN  stretch
        + crossing_cost(self, finger_a, finger_b, pitch_a, pitch_b)
        + repetition_cost(self, finger_a, finger_b, pitch_a, pitch_b)
        + hand_switch_cost(self, hand_a, hand_b)
        + chord_penalty(self, chord_size) + weak_finger_cost(self, finger_b)

\* variant: in the left hand the fingers run the other way, so that a
\* crossing is a finger step in the direction of the pitch step
total_cost_MirroredLeft(self, finger_a, finger_b, pitch_a, pitch_b, hand_a, hand_b, chord_size) ==
    LET interval == Abs(pitch_b - pitch_a)
        crossing == IF hand_a = "L"
                    THEN crossing_cost(self, finger_b, finger_a, pitch_a, pitch_b)
                    ELSE crossing_cost(self, finger_a, finger_b, pitch_a, pitch_b)
        within   == IF hand_a = hand_b
                    THEN stretch_cost(self, finger_a, finger_b, interval)
                         + crossing
                         + repetition_cost(self, finger_a, finger_b, pitch_a, pitch_b)
                    ELSE hand_switch_cost(self, hand_a, hand_b)
    IN  within + chord_penalty(self, chord_size) + weak_finger_cost(self, finger_b)

\* variant: the chord penalty is charged within a hand only
total_cost_ChordWithinHand(self, finger_a, finger_b, pitch_a, pitch_b, hand_a, hand_b, chord_size) ==
    LET interval == Abs(pitch_b - pitch_a)
        within   == IF hand_a = hand_b
                    THEN stretch_cost(self, finger_a, finger_b, interval)
                         + crossing_cost(self, finger_a, finger_b, pitch_a, pitch_b)
                         + repetition_cost(self, finger_a, finger_b, pitch_a, pitch_b)
                         + chord_penalty(self, chord_size)
                    ELSE hand_switch_cost(self, hand_a, hand_b)
    IN  within + weak_finger_cost(self, finger_b)

\* value total_cost returns when it does not raise
total_cost(self, finger_a, finger_b, pitch_a, pitch_b, hand_a, hand_b, chord_size) ==
    LET interval == Abs(pitch_b - pitch_a)
        within   == IF hand_a = hand_b
                    THEN Fl(Fl(stretch_cost(self, finger_a, finger_b, interval)
                               + crossing_cost(self, finger_a, finger_b, pitch_a, pitch_b))
                            + repetition_cost(self, finger_a, finger_b, pitch_a, pitch_b))
                    ELSE hand_switch_cost(self, hand_a, hand_b)
    IN  Fl(Fl(within + chord_penalty(self, chord_size)) + weak_finger_cost(self, finger_b))

----------------------------------------------------------------------------
(* Inputs *)

\* MIDI pitches the model draws (0..127 in the code)
Pitches == {48, 60, 64, 67}

\* arguments `interval` of direct stretch_cost calls
Intervals == {0, 3, 4, 7, 8, 12}

\* chord sizes (>= 1)
ChordSizes == {1, 5, 6, 7}

FullSpan ==
    ("1_2" :> 5) @@ ("1_3" :> 7) @@ ("1_4" :> 9) @@ ("1_5" :> 10) @@
    ("2_3" :> 3) @@ ("2_4" :> 5) @@ ("2_5" :> 7) @@
    ("3_4" :> 3) @@ ("3_5" :> 5) @@ ("4_5" :> 3)

Without(r, k) == [x \in (DOMAIN r) \ {k} |-> r[x]]

MkCfg(span, sw, cw, rw, hw, pw, ww, sp) ==
    [max_comfortable_span |-> span,
     stretch_weight       |-> sw,
     crossing_weight      |-> cw,
     repetition_weight    |-> rw,
     hand_switch_weight   |-> hw,
     chord_penalty_weight |-> pw,
     weak_finger_weight   |-> ww,
     split_pitch          |-> sp]

\* configurations with every required key and every finger pair
GoodContents ==
    { MkCfg(FullSpan, 1, 3, 2, 4, 1, 1, 60),
      MkCfg(FullSpan, 2, 1, 5, 1, 3, 2, 47),
      MkCfg(FullSpan, 1, 0, 0, 3, 2, 0, 64),
      MkCfg(FullSpan, 0, 2, 1, 0, 1, 3, 60) }

BaseContent == MkCfg(FullSpan, 1, 3, 2, 4, 1, 1, 60)

\* configurations the constructor or a later call rejects
BadContents ==
    { Without(BaseContent, "hand_switch_weight"),
      Without(BaseContent, "max_comfortable_span"),
      [BaseContent EXCEPT !["max_comfortable_span"] = Without(FullSpan, "1_3")] }

\* configurations lacking exactly one required key
MissingOneKey == { Without(BaseContent, required_keys[k]) : k \in DOMAIN required_keys }

ConfigFiles ==
    {[exists |-> FALSE]}
    \cup {[exists |-> TRUE, content |-> k] :
              k \in GoodContents \cup BadContents \cup MissingOneKey}

----------------------------------------------------------------------------
(* solver.py : solve *)

\* the calls of solve in a run with a single call
Calls1 == {1}

\* no cost-model method has been called directly
NoProbe == [fn |-> "none", args |-> <<>>, ret |-> <<>>, exc |-> NoExc]

\* train has not been called
NoTrain == [pc |-> "none"]

len(l) == Cardinality(DOMAIN l)

Last(l) == l[Len(l)]

\* a list as Python holds it: built once, then read (TLC would otherwise
\* compute an element anew at every read)
List(l) ==
    LET built == l
    IN  IF built = built THEN built ELSE <<>>

\* list.reverse(), giving the 0-based list
Reversed(l) == [i \in 0..(Len(l) - 1) |-> l[Len(l) - i]]

\* variant: the cost model is constructed before the empty check
solve_begin_ConstructFirst(ns, file) ==
    LET r == FingeringCostModel(file)
    IN  IF r.exc # NoExc
        THEN [pc |-> "raised", cm |-> r.obj, exc |-> r.exc]
        ELSE [pc |-> IF len(ns) = 0 THEN "done" ELSE "init", cm |-> r.obj, exc |-> NoExc]

\* `if not notes: return []`, then `cost_model = FingeringCostModel(config_path)`
solve_begin(ns, file) ==
    IF len(ns) = 0
    THEN [pc |-> "done", cm |-> NoModel, exc |-> NoExc]
    ELSE LET r == FingeringCostModel(file)
         IN  [pc  |-> IF r.exc = NoExc THEN "init" ELSE "raised",
              cm  |-> r.obj,
              exc |-> r.exc]

\* variant: a first note on the split pitch goes to the right hand
preferred_hand_Strict(self, first_pitch) ==
    IF first_pitch < self.split_pitch THEN "L" ELSE "R"

preferred_hand(self, first_pitch) ==
    IF first_pitch <= self.split_pitch THEN "L" ELSE "R"

\* variant: the split is a hard constraint, the other hand cannot start
init_cost_Hard(self, first_pitch, hand, finger) ==
    IF hand = preferred_hand(self, first_pitch)
    THEN weak_finger_cost(self, finger)
    ELSE Inf

init_cost(self, first_pitch, hand, finger) ==
    LET bias == IF hand = preferred_hand(self, first_pitch)
                THEN 0
                ELSE Half(self.hand_switch_weight)
    IN  Fl(weak_finger_cost(self, finger) + bias)

\* variant: the cost of the path so far is dropped
cumulative_TransOnly(prev_cost, trans) == trans

\* `total = prev_cost + trans`
cumulative(prev_cost, trans) == Fl(prev_cost + trans)

\* variant: a source that is as cheap as the best replaces it
Better_OrEqual(total, best_cost) == total <= best_cost

\* `total < best_cost`
Better(total, best_cost) == total < best_cost

\* the loops over (hand_a, finger_a) for one destination state sb, from
\* the k-th source state on; best is <<best_cost, best_prev>>
RECURSIVE best_source(_, _, _, _, _, _, _, _)
best_source(self, prev, pitch_a, pitch_b, chord_size, sb, k, best) ==
    IF k > Len(StateOrder)
    THEN best
    ELSE LET sa == StateOrder[k]
         IN  IF sa \notin DOMAIN prev
             THEN best_source(self, prev, pitch_a, pitch_b, chord_size, sb, k + 1, best)
             ELSE LET trans == total_cost(self, sa[2], sb[2], pitch_a, pitch_b,
                                          sa[1], sb[1], chord_size)
                      total == cumulative(prev[sa], trans)
                  IN  best_source(self, prev, pitch_a, pitch_b, chord_size, sb, k + 1,
                                  IF Better(total, best[1]) THEN <<total, sa>> ELSE best)

\* position (1-based) of the call total_cost(sa -> sb) within one iteration
\* of the forward pass
CallPos(kb, ka) == (kb - 1) * Len(StateOrder) + ka

\* positions of the total_cost calls of one forward iteration that raise
RaisingCalls(self, prev) ==
    { CallPos(kb, ka) : <<kb, ka>> \in
        { q \in (DOMAIN StateOrder) \X (DOMAIN StateOrder) :
            /\ StateOrder[q[2]] \in DOMAIN prev
            /\ total_cost_raises(self, StateOrder[q[2]][2], StateOrder[q[1]][2],
                                 StateOrder[q[2]][1], StateOrder[q[1]][1]) } }

Min(S) == CHOOSE x \in S : \A y \in S : x <= y

\* variant: the keys come in either direction, as from an unordered container
ItemsOrders_Unordered(d) ==
    LET o == SelectSeq(StateOrder, LAMBDA s : s \in DOMAIN d)
    IN  { o, [k \in 1..Len(o) |-> o[Len(o) + 1 - k]] }

\* the orders in which dict.items() can yield the keys of d: insertion
\* order, and both tables are filled in the order of StateOrder
ItemsOrders(d) == { SelectSeq(StateOrder, LAMBDA s : s \in DOMAIN d) }

\* variant: a state that is as cheap as the best replaces it
RECURSIVE best_final_LastMin(_, _, _, _)
best_final_LastMin(d, order, k, best) ==
    IF k > Len(order)
    THEN best
    ELSE best_final_LastMin(d, order, k + 1,
                            IF d[order[k]] <= best[1] THEN <<d[order[k]], order[k]>> ELSE best)

\* the loop over dp[n-1].items(); best is <<best_final_cost, best_final_state>>
RECURSIVE best_final(_, _, _, _)
best_final(d, order, k, best) ==
    IF k > Len(order)
    THEN best
    ELSE best_final(d, order, k + 1,
                    IF d[order[k]] < best[1] THEN <<d[order[k]], order[k]>> ELSE best)

\* variant: the notes are read from the end
result_note_Reversed(ns, i) == ns[len(ns) - 1 - i]

\* the note a result entry is built from
result_note(ns, i) == ns[i]

\* the result list built from the reversed path
build_result(ns, p) ==
    [i \in 0..(len(ns) - 1) |->
        [onset_time |-> result_note(ns, i).start,
         pitch      |-> result_note(ns, i).pitch,
         hand       |-> p[i][1],
         finger     |-> p[i][2]]]

\* lines 54-64: empty check, cost model, table allocation
SolveBegin(c) ==
    /\ pc[c] = "entry"
    /\ LET b == solve_begin(notes[c], config[c])
           n == len(notes[c])
       IN  /\ pc' = [pc EXCEPT ![c] = b.pc]
           /\ cm' = [cm EXCEPT ![c] = b.cm]
           /\ exc' = [exc EXCEPT ![c] = b.exc]
           /\ dp' = [dp EXCEPT ![c] = IF b.pc = "init"
                                      THEN [i \in 0..(n - 1) |-> <<>>] ELSE @]
           /\ bp' = [bp EXCEPT ![c] = IF b.pc = "init"
                                      THEN [i \in 0..(n - 1) |-> <<>>] ELSE @]
    /\ UNCHANGED <<notes, config, idx, path, result, ncalls, probe, tr>>

\* variant: the tables are shared, the first row is written into every
\* allocated table
SolveInit_Shared(c) ==
    /\ pc[c] = "init"
    /\ LET first_pitch == notes[c][0].pitch
           n == len(notes[c])
           row == [s \in StateKeys |-> init_cost(cm[c], first_pitch, s[1], s[2])]
       IN  /\ dp' = [d \in DOMAIN dp |->
                        IF d = c \/ len(dp[d]) > 0
                        THEN [dp[d] EXCEPT ![0] = row] ELSE dp[d]]
           /\ bp' = [bp EXCEPT ![c][0] = [s \in StateKeys |-> None]]
           /\ ncalls' = [ncalls EXCEPT ![c] = @ + Cardinality(StateKeys)]
           /\ idx' = [idx EXCEPT ![c] = 1]
           /\ pc' = [pc EXCEPT ![c] = IF 1 < n THEN "forward" ELSE "select"]
    /\ UNCHANGED <<notes, config, cm, path, result, exc, probe, tr>>

\* lines 66-76: initialise first note
SolveInit(c) ==
    /\ pc[c] = "init"
    /\ LET first_pitch == notes[c][0].pitch
           n == len(notes[c])
       IN  /\ dp' = [dp EXCEPT ![c][0] =
                        [s \in StateKeys |-> init_cost(cm[c], first_pitch, s[1], s[2])]]
           /\ bp' = [bp EXCEPT ![c][0] = [s \in StateKeys |-> None]]
           /\ ncalls' = [ncalls EXCEPT ![c] = @ + Cardinality(StateKeys)]
           /\ idx' = [idx EXCEPT ![c] = 1]
           /\ pc' = [pc EXCEPT ![c] = IF 1 < n THEN "forward" ELSE "select"]
    /\ UNCHANGED <<notes, config, cm, path, result, exc, probe, tr>>

\* lines 79-110: one iteration of `for i in range(1, n)`
SolveForward(c) ==
    /\ pc[c] = "forward"
    /\ LET i          == idx[c]
           n          == len(notes[c])
           cur_note   == notes[c][i]
           prev_note  == notes[c][i - 1]
           chord_size == Get(cur_note, "chord_size", 1)
           raising    == RaisingCalls(cm[c], dp[c][i - 1])
           best(sb)   == best_source(cm[c], dp[c][i - 1], prev_note.pitch,
                                     cur_note.pitch, chord_size, sb, 1, <<Inf, None>>)
       IN  IF raising # {}
           THEN /\ pc' = [pc EXCEPT ![c] = "raised"]
                /\ exc' = [exc EXCEPT ![c] = Raise("ValueError", "max_comfortable_span")]
                /\ ncalls' = [ncalls EXCEPT ![c] = @ + Min(raising)]
                /\ UNCHANGED <<dp, bp, idx>>
           ELSE /\ dp' = [dp EXCEPT ![c][i] = [sb \in StateKeys |-> best(sb)[1]]]
                /\ bp' = [bp EXCEPT ![c][i] = [sb \in StateKeys |-> best(sb)[2]]]
                /\ ncalls' = [ncalls EXCEPT ![c] =
                                @ + Cardinality(StateKeys) * Cardinality(DOMAIN dp[c][i - 1])]
                /\ idx' = [idx EXCEPT ![c] = i + 1]
                /\ pc' = [pc EXCEPT ![c] = IF i + 1 < n THEN "forward" ELSE "select"]
                /\ exc' = exc
    /\ UNCHANGED <<notes, config, cm, path, result, probe, tr>>

\* lines 113-122: find the best final state, start the path
SolveSelect(c) ==
    /\ pc[c] = "select"
    /\ LET n == len(notes[c])
       IN  /\ \E order \in ItemsOrders(dp[c][n - 1]) :
                path' = [path EXCEPT ![c] =
                           << best_final(dp[c][n - 1], order, 1, <<Inf, <<"R", 1>>>>)[2] >>]
           /\ idx' = [idx EXCEPT ![c] = n - 1]
           /\ pc' = [pc EXCEPT ![c] = IF n - 1 > 0 THEN "trace" ELSE "build"]
    /\ UNCHANGED <<notes, config, cm, dp, bp, result, exc, ncalls, probe, tr>>

\* variant: the backpointer is read from the row before
SolveTrace_RowBefore(c) ==
    /\ pc[c] = "trace"
    /\ LET i          == idx[c]
           prev_state == bp[c][i - 1][Last(path[c])]
       IN  /\ path' = [path EXCEPT ![c] =
                         Append(@, IF prev_state = None THEN <<"R", 1>> ELSE prev_state)]
           /\ idx' = [idx EXCEPT ![c] = i - 1]
           /\ pc' = [pc EXCEPT ![c] = IF i - 1 > 0 THEN "trace" ELSE "build"]
    /\ UNCHANGED <<notes, config, cm, dp, bp, result, exc, ncalls, probe, tr>>

\* lines 123-128: one iteration of `for i in range(n - 1, 0, -1)`
SolveTrace(c) ==
    /\ pc[c] = "trace"
    /\ LET i          == idx[c]
           prev_state == bp[c][i][Last(path[c])]
       IN  /\ path' = [path EXCEPT ![c] =
                         Append(@, IF prev_state = None THEN <<"R", 1>> ELSE prev_state)]
           /\ idx' = [idx EXCEPT ![c] = i - 1]
           /\ pc' = [pc EXCEPT ![c] = IF i - 1 > 0 THEN "trace" ELSE "build"]
    /\ UNCHANGED <<notes, config, cm, dp, bp, result, exc, ncalls, probe, tr>>

\* lines 130-145: reverse the path, build and return the result
SolveBuild(c) ==
    /\ pc[c] = "build"
    /\ result' = [result EXCEPT ![c] = build_result(notes[c], Reversed(path[c]))]
    /\ pc' = [pc EXCEPT ![c] = "done"]
    /\ UNCHANGED <<notes, config, cm, dp, bp, idx, path, exc, ncalls, probe, tr>>

----------------------------------------------------------------------------
(* Inputs of solve *)

\* notes as the feature stage hands them over (chord_size is optional:
\* solve reads it with a default of 1)
NoteSet ==
    { [pitch |-> 64, start |-> 0, chord_size |-> 1],
      [pitch |-> 60, start |-> 1, chord_size |-> 2],
      [pitch |-> 72, start |-> 1, chord_size |-> 2],
      [pitch |-> 60, start |-> 2],
      [pitch |-> 64, start |-> 2, chord_size |-> 6] }

\* the sort key of midi_parser.extract_notes: (start, pitch)
SortedNotes(ns) ==
    \A i \in DOMAIN ns : \A j \in DOMAIN ns :
        i < j => \/ ns[i].start < ns[j].start
                 \/ (ns[i].start = ns[j].start /\ ns[i].pitch <= ns[j].pitch)

NoteSeqs ==
    { ns \in UNION { [0..(k - 1) -> NoteSet] : k \in 0..MaxLen } : SortedNotes(ns) }

StartOfCall(S) ==
    /\ pc     = [c \in S |-> "entry"]
    /\ cm     = [c \in S |-> NoModel]
    /\ dp     = [c \in S |-> <<>>]
    /\ bp     = [c \in S |-> <<>>]
    /\ idx    = [c \in S |-> 0]
    /\ path   = [c \in S |-> <<>>]
    /\ result = [c \in S |-> <<>>]
    /\ exc    = [c \in S |-> NoExc]
    /\ ncalls = [c \in S |-> 0]
    /\ probe  = NoProbe
    /\ tr     = NoTrain

Init ==
    /\ notes \in [Calls1 -> NoteSeqs]
    /\ config \in [Calls1 -> ConfigFiles]
    /\ StartOfCall(Calls1)

Next ==
    \E c \in DOMAIN pc :
        \/ SolveBegin(c)
        \/ SolveInit(c)
        \/ SolveForward(c)
        \/ SolveSelect(c)
        \/ SolveTrace(c)
        \/ SolveBuild(c)

\* two calls of solve with the same arguments
Calls2 == {1, 2}

InitTwice ==
    /\ notes \in [Calls2 -> NoteSeqs]
    /\ config \in [Calls2 -> ConfigFiles]
    /\ notes[1] = notes[2]
    /\ config[1] = config[2]
    /\ StartOfCall(Calls2)

SpecTwice == InitTwice /\ [][Next]_vars

\* the six scalar weights of a configuration
WeightKeys ==
    { "stretch_weight", "crossing_weight", "repetition_weight",
      "hand_switch_weight", "chord_penalty_weight", "weak_finger_weight" }

\* factors by which a single weight is scaled up
ScaleFactors == {2, 3}

\* file g is file f with the single weight k multiplied by a factor
ScaledUp(f, g, k) ==
    /\ f.exists /\ g.exists
    /\ DOMAIN f.content = Range(required_keys)
    /\ \E x \in ScaleFactors :
          g.content = [f.content EXCEPT ![k] = @ * x]

Finished(c) == pc[c] \in {"done", "raised"}

\* a call of solve takes a step
Step(c) ==
    \/ SolveBegin(c)
    \/ SolveInit(c)
    \/ SolveForward(c)
    \/ SolveSelect(c)
    \/ SolveTrace(c)
    \/ SolveBuild(c)

\* the calls run one after the other
NextInTurn ==
    \E c \in DOMAIN pc :
        /\ \A d \in DOMAIN pc : d < c => Finished(d)
        /\ Step(c)

\* solve on the same notes before and after one weight is scaled up
InitScaled ==
    /\ notes \in [Calls2 -> NoteSeqs]
    /\ notes[1] = notes[2]
    /\ config \in [Calls2 -> {[exists |-> TRUE, content |-> k] : k \in GoodContents}
                              \cup {[exists |-> TRUE,
                                     content |-> [k EXCEPT ![w] = @ * x]] :
                                        k \in GoodContents, w \in WeightKeys,
                                        x \in ScaleFactors}]
    /\ config[1].content \in GoodContents
    /\ \E w \in WeightKeys : ScaledUp(config[1], config[2], w)
    /\ StartOfCall(Calls2)

SpecScaled == InitScaled /\ [][NextInTurn]_vars

\* configurations of the concurrent calls
ParConfigs ==
    { [exists |-> TRUE, content |-> BaseContent],
      [exists |-> TRUE, content |-> MkCfg(FullSpan, 2, 1, 5, 1, 3, 2, 47)],
      [exists |-> TRUE,
       content |-> [BaseContent EXCEPT !["max_comfortable_span"] = Without(FullSpan, "1_3")]] }

\* note sequences of the second of two concurrent calls
ParSeqs ==
    { (0 :> [pitch |-> 64, start |-> 0, chord_size |-> 1])
        @@ (1 :> [pitch |-> 72, start |-> 1, chord_size |-> 2]),
      (0 :> [pitch |-> 60, start |-> 1, chord_size |-> 2])
        @@ (1 :> [pitch |-> 72, start |-> 1, chord_size |-> 2])
        @@ (2 :> [pitch |-> 64, start |-> 2, chord_size |-> 6]) }

\* two calls of solve on different note sequences, in parallel threads
InitPar ==
    /\ notes \in [Calls2 -> NoteSeqs]
    /\ notes[2] \in ParSeqs
    /\ notes[1] # notes[2]
    /\ config \in [Calls2 -> ParConfigs]
    /\ config[2].content["max_comfortable_span"] = FullSpan
    /\ StartOfCall(Calls2)

SpecPar == InitPar /\ [][Next]_vars

Spec == Init /\ [][Next]_vars

----------------------------------------------------------------------------
(* Properties of solve (checked under Spec, C3 under SpecTwice) *)

\* the (hand, finger) labeling a call returned
Labels(c) == [i \in DOMAIN result[c] |-> <<result[c][i].hand, result[c][i].finger>>]

Returns(c) == pc[c] = "done"

\* total cost of a labeling: the initial cost of its first state plus
\* total_cost over every consecutive pair of notes
RECURSIVE PairCosts(_, _, _, _)
PairCosts(self, ns, lab, i) ==
    IF i < 1
    THEN 0
    ELSE PairCosts(self, ns, lab, i - 1)
         + total_cost(self, lab[i - 1][2], lab[i][2], ns[i - 1].pitch, ns[i].pitch,
                      lab[i - 1][1], lab[i][1], Get(ns[i], "chord_size", 1))

LabelingCost(self, ns, lab) ==
    init_cost(self, ns[0].pitch, lab[0][1], lab[0][2])
    + PairCosts(self, ns, lab, len(ns) - 1)

\* C1: for a non-empty note sequence and a valid configuration, the
\* labeling solve returns has minimum total cost among all 10^n labelings.
C1_Optimal ==
    \A c \in DOMAIN pc :
        (Returns(c) /\ len(notes[c]) > 0) =>
            \A lab \in [DOMAIN notes[c] -> StateKeys] :
                LabelingCost(cm[c], notes[c], Labels(c))
                    <= LabelingCost(cm[c], notes[c], lab)

\* C1 witness: a returned labeling of three notes that changes hand and
\* has a positive total cost
C1_Witness ==
    \E c \in DOMAIN pc :
        /\ Returns(c) /\ len(notes[c]) = 3
        /\ \E i \in 1..2 : Labels(c)[i][1] # Labels(c)[i - 1][1]
        /\ LabelingCost(cm[c], notes[c], Labels(c)) > 0

\* C2: the returned sequence has the length of the input and its i-th
\* element carries the onset time and the pitch of the i-th note.
C2_Positional ==
    \A c \in DOMAIN pc :
        (Returns(c) /\ len(notes[c]) > 0) =>
            /\ len(result[c]) = len(notes[c])
            /\ \A i \in DOMAIN notes[c] :
                 /\ result[c][i].onset_time = notes[c][i].start
                 /\ result[c][i].pitch = notes[c][i].pitch

\* C2 witness: three notes with different onsets and pitches are returned
C2_Witness ==
    \E c \in DOMAIN pc :
        /\ Returns(c) /\ len(notes[c]) = 3
        /\ notes[c][0].start < notes[c][1].start
        /\ notes[c][1].start < notes[c][2].start
        /\ notes[c][0].pitch # notes[c][2].pitch
        /\ result[c][2].onset_time = notes[c][2].start

C4_EmptyInput ==
    \A c \in DOMAIN pc :
        len(notes[c]) = 0 =>
            /\ pc[c] \in {"entry", "done"}
            /\ result[c] = <<>>
            /\ exc[c] = NoExc
            /\ cm[c] = NoModel
            /\ ncalls[c] = 0

\* C4 witness: the empty sequence was solved although the configuration
\* file does not exist
C4_Witness ==
    \E c \in DOMAIN pc :
        /\ Returns(c) /\ len(notes[c]) = 0 /\ result[c] = <<>>
        /\ ~config[c].exists

----------------------------------------------------------------------------
(* Direct calls of the cost-model methods *)

Returned(fn, args, v) == [fn |-> fn, args |-> args, ret |-> <<v>>, exc |-> NoExc]

Raised(fn, args, e) == [fn |-> fn, args |-> args, ret |-> <<>>, exc |-> e]

Idle(S) ==
    /\ notes  = [c \in S |-> <<>>]
    /\ pc     = [c \in S |-> "idle"]
    /\ cm     = [c \in S |-> NoModel]
    /\ dp     = [c \in S |-> <<>>]
    /\ bp     = [c \in S |-> <<>>]
    /\ idx    = [c \in S |-> 0]
    /\ path   = [c \in S |-> <<>>]
    /\ result = [c \in S |-> <<>>]
    /\ exc    = [c \in S |-> NoExc]
    /\ ncalls = [c \in S |-> 0]

InitCost ==
    /\ config \in [Calls1 -> ConfigFiles]
    /\ Idle(Calls1)
    /\ probe = NoProbe
    /\ tr = NoTrain

solverVars == <<notes, config, pc, dp, bp, idx, path, result, exc, ncalls>>

\* cost_model = FingeringCostModel(config_path)
NewCostModel ==
    /\ probe = NoProbe
    /\ LET r == FingeringCostModel(config[1])
       IN  /\ cm' = [cm EXCEPT ![1] = r.obj]
           /\ probe' = IF r.exc = NoExc
                       THEN Returned("__init__", <<>>, 0)
                       ELSE Raised("__init__", <<>>, r.exc)
    /\ UNCHANGED <<solverVars, tr>>

\* the methods are pure: a run constructs the model and makes one call
Fresh == cm[1].constructed /\ probe.fn = "__init__"

CallStretchCost ==
    /\ Fresh
    /\ \E a \in Range(FINGERS), b \in Range(FINGERS), iv \in Intervals :
         LET args == [finger_a |-> a, finger_b |-> b, interval |-> iv]
         IN  probe' = IF stretch_cost_raises(cm[1], a, b)
                      THEN Raised("stretch_cost", args,
                                  Raise("ValueError", SpanKey(a, b)))
                      ELSE Returned("stretch_cost", args,
                                    stretch_cost(cm[1], a, b, iv))
    /\ UNCHANGED <<cm, solverVars, tr>>

CallCrossingCost ==
    /\ Fresh
    /\ \E a \in Range(FINGERS), b \in Range(FINGERS), pa \in Pitches, pb \in Pitches :
         probe' = Returned("crossing_cost",
                           [finger_a |-> a, finger_b |-> b, pitch_a |-> pa, pitch_b |-> pb],
                           crossing_cost(cm[1], a, b, pa, pb))
    /\ UNCHANGED <<cm, solverVars, tr>>

CallRepetitionCost ==
    /\ Fresh
    /\ \E a \in Range(FINGERS), b \in Range(FINGERS), pa \in Pitches, pb \in Pitches :
         probe' = Returned("repetition_cost",
                           [finger_a |-> a, finger_b |-> b, pitch_a |-> pa, pitch_b |-> pb],
                           repetition_cost(cm[1], a, b, pa, pb))
    /\ UNCHANGED <<cm, solverVars, tr>>

CallHandSwitchCost ==
    /\ Fresh
    /\ \E ha \in Range(HANDS), hb \in Range(HANDS) :
         probe' = Returned("hand_switch_cost", [hand_a |-> ha, hand_b |-> hb],
                           hand_switch_cost(cm[1], ha, hb))
    /\ UNCHANGED <<cm, solverVars, tr>>

CallChordPenalty ==
    /\ Fresh
    /\ \E cs \in ChordSizes :
         probe' = Returned("chord_penalty", [chord_size |-> cs],
                           chord_penalty(cm[1], cs))
    /\ UNCHANGED <<cm, solverVars, tr>>

CallWeakFingerCost ==
    /\ Fresh
    /\ \E f \in Range(FINGERS) :
         probe' = Returned("weak_finger_cost", [finger |-> f],
                           weak_finger_cost(cm[1], f))
    /\ UNCHANGED <<cm, solverVars, tr>>

CallTotalCost ==
    /\ Fresh
    /\ \E a \in Range(FINGERS), b \in Range(FINGERS), pa \in Pitches, pb \in Pitches,
          ha \in Range(HANDS), hb \in Range(HANDS), cs \in ChordSizes :
         LET args == [finger_a |-> a, finger_b |-> b, pitch_a |-> pa, pitch_b |-> pb,
                      hand_a |-> ha, hand_b |-> hb, chord_size |-> cs]
         IN  probe' = IF total_cost_raises(cm[1], a, b, ha, hb)
                      THEN Raised("total_cost", args,
                                  Raise("ValueError", SpanKey(a, b)))
                      ELSE Returned("total_cost", args,
                                    total_cost(cm[1], a, b, pa, pb, ha, hb, cs))
    /\ UNCHANGED <<cm, solverVars, tr>>

NextCost ==
    \/ NewCostModel
    \/ CallStretchCost
    \/ CallCrossingCost
    \/ CallRepetitionCost
    \/ CallHandSwitchCost
    \/ CallChordPenalty
    \/ CallWeakFingerCost
    \/ CallTotalCost

SpecCost == InitCost /\ [][NextCost]_vars

----------------------------------------------------------------------------
(* Properties of the cost-model methods (checked under SpecCost) *)

Max0(x) == IF x > 0 THEN x ELSE 0

Sgn(x) == IF x > 0 THEN 1 ELSE IF x < 0 THEN 0 - 1 ELSE 0

ProbeReturned(fn) == probe.fn = fn /\ probe.exc = NoExc

\* the span-table entry of the unordered pair {a, b}
PairEntry(span, a, b) ==
    span[CHOOSE k \in DOMAIN span : k \in {PairKey(a, b), PairKey(b, a)}]

\* C5: total_cost is stretch + crossing + repetition when the hands are
\* equal and hand_switch_weight alone when they differ; in both cases
\* chord_penalty(chord_size) and weak_finger_cost(finger_b) are added, and
\* weak_finger_cost is weak_finger_weight exactly for fingers 4 and 5.
C5_TotalCostSum ==
    /\ ProbeReturned("total_cost") =>
         LET a == probe.args
             m == cm[1]
             within == IF a.hand_a = a.hand_b
                       THEN stretch_cost(m, a.finger_a, a.finger_b,
                                         Abs(a.pitch_b - a.pitch_a))
                            + crossing_cost(m, a.finger_a, a.finger_b,
                                            a.pitch_a, a.pitch_b)
                            + repetition_cost(m, a.finger_a, a.finger_b,
                                              a.pitch_a, a.pitch_b)
                       ELSE m.hand_switch_weight
         IN  probe.ret[1] = within + chord_penalty(m, a.chord_size)
                                   + weak_finger_cost(m, a.finger_b)
    /\ ProbeReturned("weak_finger_cost") =>
         probe.ret[1] = IF probe.args.finger \in {4, 5}
                        THEN cm[1].weak_finger_weight ELSE 0

\* C5 witness: a cross-hand transition between different fingers and
\* pitches into a weak finger of a 7-note chord, priced without stretch
C5_Witness ==
    /\ ProbeReturned("total_cost")
    /\ probe.args.hand_a # probe.args.hand_b
    /\ probe.args.finger_a = 1 /\ probe.args.finger_b = 4
    /\ probe.args.pitch_a = 48 /\ probe.args.pitch_b = 67
    /\ probe.args.chord_size = 7
    /\ cm[1].stretch_weight > 0 /\ cm[1].hand_switch_weight > 0
    /\ probe.ret[1] = cm[1].hand_switch_weight
                      + 2 * cm[1].chord_penalty_weight + cm[1].weak_finger_weight

\* C6: stretch_cost is 0 for equal fingers, otherwise
\* max(0, interval - max_span) * stretch_weight with max_span the entry of
\* the unordered pair, so it is symmetric in the two fingers.
C6_StretchCost ==
    ProbeReturned("stretch_cost") =>
      LET a == probe.args
          m == cm[1]
      IN  /\ a.finger_a = a.finger_b => probe.ret[1] = 0
          /\ a.finger_a # a.finger_b =>
               probe.ret[1] =
                 Max0(a.interval - PairEntry(m.max_comfortable_span,
                                             a.finger_a, a.finger_b))
                 * m.stretch_weight
          /\ ~stretch_cost_raises(m, a.finger_b, a.finger_a)
          /\ probe.ret[1] = stretch_cost(m, a.finger_b, a.finger_a, a.interval)

\* C6 witness: a descending finger pair stretched beyond its span
C6_Witness ==
    /\ ProbeReturned("stretch_cost")
    /\ probe.args.finger_a > probe.args.finger_b
    /\ probe.ret[1] > 0

\* C7: crossing_cost is 0 when the pitches or the fingers are equal,
\* otherwise crossing_weight exactly when the sign of the pitch step
\* differs from the sign of the finger step.
C7_CrossingCost ==
    ProbeReturned("crossing_cost") =>
      LET a == probe.args
      IN  probe.ret[1] =
            IF a.pitch_a = a.pitch_b \/ a.finger_a = a.finger_b
            THEN 0
            ELSE IF Sgn(a.pitch_b - a.pitch_a) # Sgn(a.finger_b - a.finger_a)
                 THEN cm[1].crossing_weight
                 ELSE 0

\* C7 witness: a rising pitch taken by a lower finger is charged
C7_Witness ==
    /\ ProbeReturned("crossing_cost")
    /\ probe.args.pitch_b > probe.args.pitch_a
    /\ probe.args.finger_b < probe.args.finger_a
    /\ probe.ret[1] > 0

\* C8: repetition_cost is repetition_weight exactly when the same finger
\* plays two different pitches, and 0 in every other case.
C8_RepetitionCost ==
    ProbeReturned("repetition_cost") =>
      LET a == probe.args
      IN  /\ (a.finger_a = a.finger_b /\ a.pitch_a # a.pitch_b)
                => probe.ret[1] = cm[1].repetition_weight
          /\ (a.finger_a # a.finger_b \/ a.pitch_a = a.pitch_b)
                => probe.ret[1] = 0

\* C8 witness: the same finger on two pitches is charged
C8_Witness ==
    /\ ProbeReturned("repetition_cost")
    /\ probe.args.finger_a = probe.args.finger_b
    /\ probe.args.pitch_a # probe.args.pitch_b
    /\ probe.ret[1] > 0

\* C9: chord_penalty(c) is max(0, c - 5) * chord_penalty_weight: 0 for
\* c <= 5 and twice the weight for c = 7.
C9_ChordPenalty ==
    ProbeReturned("chord_penalty") =>
      LET c == probe.args.chord_size
      IN  /\ probe.ret[1] = Max0(c - 5) * cm[1].chord_penalty_weight
          /\ c <= 5 => probe.ret[1] = 0
          /\ c = 7 => probe.ret[1] = 2 * cm[1].chord_penalty_weight

\* C9 witness: a 7-note chord is charged
C9_Witness ==
    /\ ProbeReturned("chord_penalty")
    /\ probe.args.chord_size = 7
    /\ probe.ret[1] > 0

CostMethods ==
    {"stretch_cost", "crossing_cost", "repetition_cost", "hand_switch_cost",
     "chord_penalty", "weak_finger_cost", "total_cost"}

NonNegativeWeights(m) ==
    /\ m.stretch_weight >= 0 /\ m.crossing_weight >= 0
    /\ m.repetition_weight >= 0 /\ m.hand_switch_weight >= 0
    /\ m.chord_penalty_weight >= 0 /\ m.weak_finger_weight >= 0

\* C10: on a constructed model with non-negative weights every cost method
\* returns a value >= 0 for every input in range; no call raises.
C10_TotalNonNegative ==
    (probe.fn \in CostMethods /\ cm[1].constructed /\ NonNegativeWeights(cm[1])) =>
        /\ probe.exc = NoExc
        /\ probe.ret[1] >= 0

----------------------------------------------------------------------------
(* Properties of the constructor (checked under SpecCost) *)

AllKeys == Range(required_keys)

\* the pairs of distinct fingers, lower finger first
FingerPairs == { p \in Range(FINGERS) \X Range(FINGERS) : p[1] < p[2] }

\* C11: constructing a cost model from a parameter set that lacks exactly
\* one required key fails with a ValueError naming that key, and no model
\* is produced.
C11_MissingKeyNamed ==
    \A k \in AllKeys :
        (/\ probe.fn = "__init__"
         /\ config[1].exists
         /\ DOMAIN config[1].content = AllKeys \ {k})
        => /\ probe.exc = Raise("ValueError", k)
           /\ probe.ret = <<>>
           /\ cm[1] = NoModel

\* C11 witness: the constructor rejected a parameter set without
\* hand_switch_weight
C11_Witness ==
    /\ probe.fn = "__init__"
    /\ config[1].exists
    /\ DOMAIN config[1].content = AllKeys \ {"hand_switch_weight"}
    /\ probe.exc.type = "ValueError"
    /\ probe.exc.key = "hand_switch_weight"

\* C12: construction validates finger-pair coverage eagerly: a span table
\* lacking the entry of a pair of distinct fingers makes construction fail,
\* so no later stretch_cost call is the first to detect a missing entry.
C12_EagerSpanValidation ==
    /\ (/\ probe.fn = "__init__"
        /\ config[1].exists
        /\ DOMAIN config[1].content = AllKeys
        /\ \E p \in FingerPairs :
              PairKey(p[1], p[2]) \notin DOMAIN config[1].content["max_comfortable_span"])
       => /\ probe.exc.type = "ValueError"
          /\ cm[1] = NoModel
    /\ probe.fn = "stretch_cost" => probe.exc = NoExc

----------------------------------------------------------------------------
(* Further properties of solve (checked under Spec) *)

\* some entry of the DP table of call c has been computed
TableTouched(c) == \E i \in DOMAIN dp[c] : DOMAIN dp[c][i] # {}

\* C13: solve on a non-empty sequence either returns the full labeled
\* sequence or fails with a configuration error raised before any DP table
\* entry is computed: no failure after the initialisation has started.
C13_NoLateConfigFailure ==
    \A c \in DOMAIN pc :
        pc[c] = "raised" =>
            /\ exc[c].type \in {"ValueError", "FileNotFoundError"}
            /\ ~TableTouched(c)
            /\ ncalls[c] = 0

\* C20: at index 0 each of the 10 states costs weak_finger_cost(finger)
\* plus a bias that is 0 for the natural hand (Left if the first pitch is
\* <= split_pitch, else Right) and hand_switch_weight * 0.5 otherwise, and
\* no state at index 0 has a backpointer.
C20_InitialCosts ==
    \A c \in DOMAIN pc :
        (len(dp[c]) > 0 /\ DOMAIN dp[c][0] # {}) =>
            LET m       == cm[c]
                natural == IF notes[c][0].pitch <= m.split_pitch THEN "L" ELSE "R"
            IN  /\ DOMAIN dp[c][0] = Range(HANDS) \X Range(FINGERS)
                /\ DOMAIN bp[c][0] = Range(HANDS) \X Range(FINGERS)
                /\ \A h \in Range(HANDS) : \A f \in Range(FINGERS) :
                     /\ 2 * dp[c][0][<<h, f>>]
                          = 2 * (IF f \in {4, 5} THEN m.weak_finger_weight ELSE 0)
                            + (IF h = natural THEN 0 ELSE m.hand_switch_weight)
                     /\ bp[c][0][<<h, f>>] = None

\* C20 witness: a first note exactly on the split pitch, left hand natural,
\* with the right-hand weak finger 5 charged both terms, seen after the
\* forward pass
C20_Witness ==
    \E c \in DOMAIN pc :
        /\ Returns(c) /\ len(notes[c]) = 3
        /\ notes[c][0].pitch = cm[c].split_pitch
        /\ cm[c].hand_switch_weight > 0 /\ cm[c].weak_finger_weight > 0
        /\ dp[c][0][<<"L", 1>>] = 0
        /\ 2 * dp[c][0][<<"R", 5>>]
              = 2 * cm[c].weak_finger_weight + cm[c].hand_switch_weight

----------------------------------------------------------------------------
(* Monotonicity (checked under SpecScaled) *)

\* the minimum cumulative cost at the last index: best_final_cost
OptimalCost(c) ==
    LET last == dp[c][len(notes[c]) - 1]
    IN  Min({ last[s] : s \in DOMAIN last })

\* C14: for a fixed note sequence, scaling a single weight up with the
\* other parameters fixed does not decrease the total cost of the
\* previously optimal path, nor the optimal total cost found by solve.
C14_Monotone ==
    \A w \in WeightKeys :
        (/\ DOMAIN pc = Calls2
         /\ notes[1] = notes[2] /\ len(notes[1]) > 0
         /\ ScaledUp(config[1], config[2], w)
         /\ Returns(1) /\ Returns(2))
        => /\ LabelingCost(cm[2], notes[2], Labels(1))
                >= LabelingCost(cm[1], notes[1], Labels(1))
           /\ OptimalCost(2) >= OptimalCost(1)

\* C14 witness: doubling or tripling a weight made the old optimal path
\* strictly dearer and moved the optimum to another labeling of higher cost
C14_Witness ==
    /\ DOMAIN pc = Calls2
    /\ notes[1] = notes[2] /\ len(notes[1]) = 3
    /\ \E w \in WeightKeys : ScaledUp(config[1], config[2], w)
    /\ Returns(1) /\ Returns(2)
    /\ Labels(1) # Labels(2)
    /\ LabelingCost(cm[2], notes[2], Labels(1)) > OptimalCost(2)
    /\ OptimalCost(2) > OptimalCost(1)

----------------------------------------------------------------------------
(* Concurrent calls (checked under SpecPar) *)

\* one row of the forward pass: <<best_cost, best_prev>> per destination
RowAlone(self, ns, i, prev) ==
    [sb \in StateKeys |->
        best_source(self, prev, ns[i - 1].pitch, ns[i].pitch,
                    Get(ns[i], "chord_size", 1), sb, 1, <<Inf, None>>)]

\* the tables of a call that runs alone, from index i on, given the tables
\* t up to index i - 1 (the comparison has the row computed once, as the
\* loop body computes it, before the next row reads it)
RECURSIVE TablesAlone(_, _, _, _)
TablesAlone(self, ns, i, t) ==
    IF i > len(ns) - 1
    THEN t
    ELSE LET row == RowAlone(self, ns, i, [s \in StateKeys |-> t[i - 1][s][1]])
         IN  IF row = row
             THEN TablesAlone(self, ns, i + 1, t @@ (i :> row))
             ELSE t

\* the path of a call that runs alone, traced back from index i
RECURSIVE PathAlone(_, _, _)
PathAlone(t, i, p) ==
    IF i < 1
    THEN p
    ELSE LET prev_state == t[i][Last(p)][2]
         IN  PathAlone(t, i - 1,
                       Append(p, IF prev_state = None THEN <<"R", 1>> ELSE prev_state))

\* the end of a call that runs alone with tables t (<<cost, prev>> entries)
EndAlone(ns, t) ==
    LET n     == len(ns)
        last  == [s \in StateKeys |-> t[n - 1][s][1]]
        order == CHOOSE o \in ItemsOrders(last) : TRUE
        final == best_final(last, order, 1, <<Inf, <<"R", 1>>>>)[2]
    IN  [pc |-> "done",
         result |-> List(build_result(ns, List(Reversed(PathAlone(t, n - 1, <<final>>))))),
         exc |-> NoExc]

\* how a call of solve that runs alone ends
SolveAlone(ns, file) ==
    LET b    == solve_begin(ns, file)
        row0 == [s \in StateKeys |->
                    <<init_cost(b.cm, ns[0].pitch, s[1], s[2]), None>>]
    IN  IF b.pc # "init"
        THEN [pc |-> b.pc, result |-> <<>>, exc |-> b.exc]
        ELSE IF len(ns) > 1 /\ RaisingCalls(b.cm, row0) # {}
        THEN [pc |-> "raised", result |-> <<>>,
              exc |-> Raise("ValueError", "max_comfortable_span")]
        ELSE EndAlone(ns, TablesAlone(b.cm, ns, 1, (0 :> row0)))

\* the locals of call c
Locals(c) == <<cm[c], dp[c], bp[c], idx[c], path[c], result[c], exc[c], pc[c]>>

\* every finished call ended as it would have alone
EndsAsAlone ==
    \A c \in DOMAIN pc :
        Finished(c) =>
            [pc |-> pc[c], result |-> result[c], exc |-> exc[c]]
                = SolveAlone(notes[c], config[c])

\* a step changes the locals of one call only, and never a constructed
\* cost model
StepIsLocal ==
    /\ \A c \in DOMAIN pc : \A d \in DOMAIN pc :
          c # d => (Locals(c)' = Locals(c) \/ Locals(d)' = Locals(d))
    /\ \A c \in DOMAIN pc : cm[c].constructed => cm'[c] = cm[c]

\* C16: solve calls on different note sequences that run concurrently with
\* arbitrary interleaving each end as when run alone; dp and bp of one call
\* are never read or written by another, and the parameters of a cost model
\* are not modified after construction.
C16_Isolated == []EndsAsAlone /\ [][StepIsLocal]_vars

\* C16 witness: the second call has returned its three labels while the
\* first, on other notes, is in the middle of its forward pass
C16_Witness ==
    /\ DOMAIN pc = Calls2
    /\ notes[1] # notes[2]
    /\ Returns(2) /\ len(result[2]) = 3
    /\ pc[1] = "forward" /\ idx[1] = 2
    /\ result[2] = SolveAlone(notes[2], config[2]).result

----------------------------------------------------------------------------
(* evaluator.py : the accuracy functions *)

\* the float a / b, kept as the pair of its terms; 0.0 is Frac(0, 1)
Frac(a, b) == <<a, b>>

\* what a call ends with: a returned value or a raised exception
Return(v) == [exc |-> NoExc, ret |-> v]

Throw(e) == [exc |-> e, ret |-> None]

\* raise ValueError(f"Length mismatch: ...")
LengthMismatch == Raise("ValueError", "Length mismatch")

\* the indices over which zip(predicted, ground_truth) runs
Zip(predicted, ground_truth) == DOMAIN predicted \cap DOMAIN ground_truth

\* variant: only a prediction shorter than the ground truth is rejected
note_accuracy_ShorterOnly(predicted, ground_truth) ==
    IF len(predicted) = 0 /\ len(ground_truth) = 0
    THEN Return(Frac(0, 1))
    ELSE IF len(predicted) < len(ground_truth)
    THEN Throw(LengthMismatch)
    ELSE Return(Frac(Cardinality({ k \in Zip(predicted, ground_truth) :
                                     /\ predicted[k].hand = ground_truth[k].hand
                                     /\ predicted[k].finger = ground_truth[k].finger }),
                     len(ground_truth)))

\* lines 18-47
note_accuracy(predicted, ground_truth) ==
    IF len(predicted) = 0 /\ len(ground_truth) = 0
    THEN Return(Frac(0, 1))
    ELSE IF len(predicted) # len(ground_truth)
    THEN Throw(LengthMismatch)
    ELSE Return(Frac(Cardinality({ k \in Zip(predicted, ground_truth) :
                                     /\ predicted[k].hand = ground_truth[k].hand
                                     /\ predicted[k].finger = ground_truth[k].finger }),
                     len(ground_truth)))

\* lines 50-74
hand_accuracy(predicted, ground_truth) ==
    IF len(predicted) = 0 /\ len(ground_truth) = 0
    THEN Return(Frac(0, 1))
    ELSE IF len(predicted) # len(ground_truth)
    THEN Throw(LengthMismatch)
    ELSE Return(Frac(Cardinality({ k \in Zip(predicted, ground_truth) :
                                     predicted[k].hand = ground_truth[k].hand }),
                     len(ground_truth)))

\* lines 77-114
finger_accuracy(predicted, ground_truth) ==
    IF len(predicted) = 0 /\ len(ground_truth) = 0
    THEN Return(Frac(0, 1))
    ELSE IF len(predicted) # len(ground_truth)
    THEN Throw(LengthMismatch)
    ELSE LET hand_correct_pairs == { k \in Zip(predicted, ground_truth) :
                                       predicted[k].hand = ground_truth[k].hand }
         IN  IF hand_correct_pairs = {}
             THEN Return(Frac(0, 1))
             ELSE Return(Frac(Cardinality({ k \in hand_correct_pairs :
                                              predicted[k].finger = ground_truth[k].finger }),
                              Cardinality(hand_correct_pairs)))

\* expert labels
GtLabels ==
    { [hand |-> "L", finger |-> 1],
      [hand |-> "L", finger |-> 2],
      [hand |-> "R", finger |-> 1] }

\* ground-truth annotation lists
GroundTruths == UNION { [0..(k - 1) -> GtLabels] : k \in 0..MaxLen }

\* predicted[:k] for every k
Prefixes(l) == { [i \in 0..(k - 1) |-> l[i]] : k \in 0..len(l) }

\* one call of solve, and then one call of an accuracy function on its
\* result or on a slice of it
Scoring(fn, outcome) ==
    LET args == [predicted |-> outcome.predicted, ground_truth |-> outcome.ground_truth]
    IN  IF outcome.r.exc = NoExc
        THEN Returned(fn, args, outcome.r.ret)
        ELSE Raised(fn, args, outcome.r.exc)

CallNoteAccuracy ==
    /\ Returns(1) /\ probe = NoProbe
    /\ \E p \in Prefixes(result[1]), g \in GroundTruths :
         probe' = Scoring("note_accuracy",
                          [predicted |-> p, ground_truth |-> g, r |-> note_accuracy(p, g)])
    /\ UNCHANGED <<solverVars, cm, tr>>

CallHandAccuracy ==
    /\ Returns(1) /\ probe = NoProbe
    /\ \E p \in Prefixes(result[1]), g \in GroundTruths :
         probe' = Scoring("hand_accuracy",
                          [predicted |-> p, ground_truth |-> g, r |-> hand_accuracy(p, g)])
    /\ UNCHANGED <<solverVars, cm, tr>>

CallFingerAccuracy ==
    /\ Returns(1) /\ probe = NoProbe
    /\ \E p \in Prefixes(result[1]), g \in GroundTruths :
         probe' = Scoring("finger_accuracy",
                          [predicted |-> p, ground_truth |-> g, r |-> finger_accuracy(p, g)])
    /\ UNCHANGED <<solverVars, cm, tr>>

InitScore ==
    /\ notes \in [Calls1 -> NoteSeqs]
    /\ config \in [Calls1 -> {[exists |-> TRUE, content |-> BaseContent],
                              [exists |-> TRUE,
                               content |-> MkCfg(FullSpan, 2, 1, 5, 1, 3, 2, 47)],
                              [exists |-> FALSE]}]
    /\ StartOfCall(Calls1)

NextScore ==
    \/ Next
    \/ CallNoteAccuracy
    \/ CallHandAccuracy
    \/ CallFingerAccuracy

SpecScore == InitScore /\ [][NextScore]_vars

ScoreFns == {"note_accuracy", "hand_accuracy", "finger_accuracy"}

\* C18: scoring a predicted sequence against a ground truth of another
\* length with note_accuracy, hand_accuracy or finger_accuracy raises the
\* length-mismatch ValueError; the result of solve has the length of its
\* input, so scoring it against one label per input note never raises.
C18_LengthMismatch ==
    /\ \A c \in DOMAIN pc : Returns(c) => len(result[c]) = len(notes[c])
    /\ probe.fn \in ScoreFns =>
         LET predicted    == probe.args.predicted
             ground_truth == probe.args.ground_truth
         IN  /\ len(predicted) # len(ground_truth) => probe.exc = LengthMismatch
             /\ (predicted = result[1] /\ len(ground_truth) = len(notes[1]))
                    => probe.exc = NoExc

\* C18 witness: the three labels solve returned, scored by note_accuracy
\* against two expert labels
C18_Witness ==
    /\ probe.fn = "note_accuracy"
    /\ probe.exc = LengthMismatch
    /\ Returns(1) /\ len(notes[1]) = 3
    /\ probe.args.predicted = result[1]
    /\ len(probe.args.ground_truth) = 2

----------------------------------------------------------------------------
(* feature_builder.py : build_features; times are in milliseconds *)

LOW_THRESHOLD == 48

HIGH_THRESHOLD == 72

\* 0.03 seconds
chord_tolerance == 30

\* lines 24-37
pitch_register(pitch) ==
    IF pitch <= LOW_THRESHOLD THEN "low"
    ELSE IF pitch >= HIGH_THRESHOLD THEN "high"
    ELSE "mid"

\* variant: a note is compared with the note before it
RECURSIVE group_starts_FromPrevious(_, _, _, _)
group_starts_FromPrevious(ns, i, group_start, chord_sizes) ==
    IF i > len(ns) - 1
    THEN chord_sizes
    ELSE LET gs == IF i > 0 /\ Abs(ns[i].start - ns[i - 1].start) > chord_tolerance
                   THEN i ELSE group_start
         IN  group_starts_FromPrevious(ns, i + 1, gs, chord_sizes @@ (i :> gs))

\* lines 68-75: the list chord_sizes (the group start of every note) after
\* the loop has run from index i on
RECURSIVE group_starts(_, _, _, _)
group_starts(ns, i, group_start, chord_sizes) ==
    IF i > len(ns) - 1
    THEN chord_sizes
    ELSE LET gs == IF i > 0 /\ Abs(ns[i].start - ns[group_start].start) > chord_tolerance
                   THEN i ELSE group_start
         IN  group_starts(ns, i + 1, gs, chord_sizes @@ (i :> gs))

\* collections.Counter(l)[x]
Counter(l, x) == Cardinality({ k \in DOMAIN l : l[k] = x })

\* lines 96-100
overlap_count(ns, i) == Cardinality({ j \in 0..(i - 1) : ns[j].end > ns[i].start })

\* lines 60-114
build_features(ns) ==
    IF len(ns) = 0
    THEN <<>>
    ELSE LET chord_sizes == group_starts(ns, 0, 0, <<>>)
             chord_size_list == [i \in DOMAIN ns |-> Counter(chord_sizes, chord_sizes[i])]
         IN  [i \in 0..(len(ns) - 1) |->
                 [index          |-> i,
                  delta_pitch    |-> IF i = 0 THEN None ELSE ns[i].pitch - ns[i - 1].pitch,
                  delta_time     |-> IF i = 0 THEN None ELSE ns[i].start - ns[i - 1].start,
                  chord_size     |-> chord_size_list[i],
                  overlap_count  |-> overlap_count(ns, i),
                  pitch_register |-> pitch_register(ns[i].pitch)] @@ ns[i]]

\* notes as extract_notes gives them
Onsets == {0, 20, 40, 500}

RawNotes ==
    { [pitch |-> p, start |-> s, end |-> s + d, duration |-> d, velocity |-> 64] :
          p \in {48, 60}, s \in Onsets, d \in {10, 600} }

RawSeqs ==
    { ns \in UNION { [0..(k - 1) -> RawNotes] : k \in 0..MaxLen } : SortedNotes(ns) }

InitFeatures ==
    /\ notes \in [Calls1 -> RawSeqs]
    /\ config = [c \in Calls1 |-> [exists |-> FALSE]]
    /\ pc     = [c \in Calls1 |-> "idle"]
    /\ cm     = [c \in Calls1 |-> NoModel]
    /\ dp     = [c \in Calls1 |-> <<>>]
    /\ bp     = [c \in Calls1 |-> <<>>]
    /\ idx    = [c \in Calls1 |-> 0]
    /\ path   = [c \in Calls1 |-> <<>>]
    /\ result = [c \in Calls1 |-> <<>>]
    /\ exc    = [c \in Calls1 |-> NoExc]
    /\ ncalls = [c \in Calls1 |-> 0]
    /\ probe  = NoProbe
    /\ tr     = NoTrain

CallBuildFeatures ==
    /\ probe = NoProbe
    /\ probe' = Returned("build_features", [notes |-> notes[1]], build_features(notes[1]))
    /\ UNCHANGED <<solverVars, cm, tr>>

NextFeatures == CallBuildFeatures

SpecFeatures == InitFeatures /\ [][NextFeatures]_vars

\* the first note of the group of note i, when F is the set of first notes
FirstOf(F, i) == CHOOSE j \in F : j <= i /\ \A k \in F : k <= i => k <= j

\* F is the set of the first notes of the onset groups of ns: a note is
\* within the tolerance of the first note of its group, and the first note
\* of a group is not within the tolerance of the first note of the group
\* before it
OnsetGroups(ns, F) ==
    /\ 0 \in F
    /\ \A i \in DOMAIN ns :
          Abs(ns[i].start - ns[FirstOf(F, i)].start) <= chord_tolerance
    /\ \A j \in F \ {0} :
          Abs(ns[j].start - ns[FirstOf(F, j - 1)].start) > chord_tolerance

----------------------------------------------------------------------------
(* evaluator.py : evaluate_config, and trainer.py *)

WEIGHT_KEYS ==
    <<"stretch_weight", "crossing_weight", "repetition_weight",
      "hand_switch_weight", "chord_penalty_weight", "weak_finger_weight">>

\* _MULTIPLIERS, in quarters: 0.25, 0.5, 0.75, 1.0, 1.25, 1.5, 2.0, 3.0
MULTIPLIERS == <<1, 2, 3, 4, 5, 6, 8, 12>>

\* original_value * mult
Times(v, q) == (v * q) \div 4

\* the weights of the configurations train is given count twentieths of a
\* millionth, so that 0.000001 is
Millionth == 20

\* round(x, 6): the nearest whole number of millionths. A value halfway
\* between two of them goes where its double lies; no configuration below
\* has a candidate value there, and the even neighbour stands for it
round6(x) ==
    LET q    == x \div Millionth
        r    == x % Millionth
        down == q * Millionth
    IN  IF 2 * r < Millionth THEN down
        ELSE IF 2 * r > Millionth THEN down + Millionth
        ELSE IF q % 2 = 0 THEN down ELSE down + Millionth

\* a < b, a = b and a + b on floats kept as quotients
FracLess(x, y) == x[1] * y[2] < y[1] * x[2]

FracEq(x, y) == x[1] * y[2] = y[1] * x[2]

FracAdd(x, y) == Frac(x[1] * y[2] + y[1] * x[2], x[2] * y[2])

Min2(a, b) == IF a <= b THEN a ELSE b

\* the file a configuration dict is written to
FileOf(cfg) == [exists |-> TRUE, content |-> cfg]

\* lines 161-165: the three accuracy functions are called in turn; the first
\* that raises ends the scoring
Metrics(predicted, ground_truth) ==
    LET n == note_accuracy(predicted, ground_truth)
        h == hand_accuracy(predicted, ground_truth)
        f == finger_accuracy(predicted, ground_truth)
    IN  IF n.exc # NoExc THEN Throw(n.exc)
        ELSE IF h.exc # NoExc THEN Throw(h.exc)
        ELSE IF f.exc # NoExc THEN Throw(f.exc)
        ELSE Return([note_accuracy   |-> n.ret,
                     hand_accuracy   |-> h.ret,
                     finger_accuracy |-> f.ret])

\* the metrics evaluate_config returns when a list is empty (lines 151-156)
NoMetrics ==
    [note_accuracy   |-> Frac(0, 1),
     hand_accuracy   |-> Frac(0, 1),
     finger_accuracy |-> Frac(0, 1)]

\* variant: the lists are scored as they are, not cut to the shorter one
Scores_Untrimmed(predicted, ground_truth) ==
    IF Min2(len(predicted), len(ground_truth)) = 0
    THEN Return(NoMetrics)
    ELSE Metrics(predicted, ground_truth)

\* evaluator.py lines 148-165: the lists are cut to the shorter one and scored
Scores(predicted, ground_truth) ==
    LET min_len      == Min2(len(predicted), len(ground_truth))
        pred_trimmed == List([i \in 0..(min_len - 1) |-> predicted[i]])
        gt_trimmed   == List([i \in 0..(min_len - 1) |-> ground_truth[i]])
    IN  IF min_len = 0
        THEN Return(NoMetrics)
        ELSE Metrics(pred_trimmed, gt_trimmed)

\* evaluator.py lines 117-165 in one piece; midi is the list extract_notes
\* gives for the file
evaluate_config(midi, ground_truth, file) ==
    LET features == List(build_features(midi))
        s        == SolveAlone(features, file)
    IN  IF s.pc # "done"
        THEN Throw(s.exc)
        ELSE Scores(s.result, ground_truth)

\* trainer.py lines 68-92: the loop from pair i on, sum being the sum of the
\* accuracies so far; np.mean divides it by the number of pairs
RECURSIVE mean_accuracy_from(_, _, _, _)
mean_accuracy_from(training_pairs, file, i, sum) ==
    IF i > len(training_pairs) - 1
    THEN IF len(training_pairs) = 0
         THEN Return(Frac(0, 1))
         ELSE Return(Frac(sum[1], sum[2] * len(training_pairs)))
    ELSE LET metrics == evaluate_config(training_pairs[i].midi,
                                        training_pairs[i].ground_truth, file)
         IN  IF metrics.exc # NoExc
             THEN Throw(metrics.exc)
             ELSE mean_accuracy_from(training_pairs, file, i + 1,
                                     FracAdd(sum, metrics.ret.note_accuracy))

mean_accuracy(training_pairs, file) == mean_accuracy_from(training_pairs, file, 0, Frac(0, 1))

\* the default of max_rounds
max_rounds_default == 3

\* train has raised e
TrainRaised(e) == [tr EXCEPT !.pc = "raised", !.exc = e, !.eval = "idle"]

\* _mean_accuracy(training_pairs, file) is called
MeanCalled(t, file) == [t EXCEPT !.eval = "call", !.file = file, !.j = 0, !.sum = Frac(0, 1)]

\* lines 130-158: the checks, and the call that scores the baseline
TrainBegin ==
    /\ tr.pc = "entry"
    /\ tr' = IF len(tr.training_pairs) = 0
             THEN TrainRaised(Raise("ValueError", "training_pairs"))
             ELSE IF ~tr.base.exists
             THEN TrainRaised(Raise("FileNotFoundError", "base_config_path"))
             ELSE MeanCalled([tr EXCEPT !.pc = "baseline"], tr.base)
    /\ UNCHANGED <<solverVars, cm, probe>>

\* trainer.py lines 82-83, evaluator.py lines 142-146: evaluate_config on
\* pair j builds the features and calls solve
TrainEvaluate ==
    /\ tr.eval = "call"
    /\ notes'  = [c \in Calls1 |-> build_features(tr.training_pairs[tr.j].midi)]
    /\ config' = [c \in Calls1 |-> tr.file]
    /\ pc'     = [c \in Calls1 |-> "entry"]
    /\ cm'     = [c \in Calls1 |-> NoModel]
    /\ dp'     = [c \in Calls1 |-> <<>>]
    /\ bp'     = [c \in Calls1 |-> <<>>]
    /\ idx'    = [c \in Calls1 |-> 0]
    /\ path'   = [c \in Calls1 |-> <<>>]
    /\ result' = [c \in Calls1 |-> <<>>]
    /\ exc'    = [c \in Calls1 |-> NoExc]
    /\ ncalls' = [c \in Calls1 |-> 0]
    /\ tr' = [tr EXCEPT !.eval = "wait"]
    /\ UNCHANGED probe

\* the sweep goes on with the next multiplier, or ends
AfterTry(t) ==
    IF t.m < Len(MULTIPLIERS)
    THEN [t EXCEPT !.m = @ + 1]
    ELSE [t EXCEPT !.pc = "update"]

\* variant: a candidate that is not worse replaces the best one
Improves_OrEqual(acc, best_acc_for_key) == ~FracLess(acc, best_acc_for_key)

\* line 198: acc > best_acc_for_key
Improves(acc, best_acc_for_key) == FracLess(best_acc_for_key, acc)

\* _mean_accuracy has returned acc: lines 158-164 for the baseline, lines
\* 198-200 for a candidate
AfterMean(t, acc) ==
    IF t.pc = "baseline"
    THEN [t EXCEPT !.baseline_accuracy = acc,
                   !.best_cfg = t.base.content,
                   !.best_accuracy = acc,
                   !.round_idx = 0,
                   !.pc = IF 0 < t.max_rounds THEN "round" ELSE "write"]
    ELSE IF Improves(acc, t.best_acc_for_key)
    THEN AfterTry([t EXCEPT !.best_acc_for_key = acc,
                            !.best_value_for_key = t.candidate_value])
    ELSE AfterTry(t)

\* evaluator.py lines 148-165, trainer.py lines 88-92: solve has ended; its
\* result is scored and the loop over the pairs goes on or ends with the mean
TrainScored ==
    /\ tr.eval = "wait"
    /\ Finished(1)
    /\ tr' = IF ~Returns(1)
             THEN TrainRaised(exc[1])
             ELSE LET metrics == Scores(result[1], tr.training_pairs[tr.j].ground_truth)
                      sum     == FracAdd(tr.sum, metrics.ret.note_accuracy)
                  IN  IF metrics.exc # NoExc
                      THEN TrainRaised(metrics.exc)
                      ELSE IF tr.j + 1 < len(tr.training_pairs)
                      THEN [tr EXCEPT !.j = @ + 1, !.sum = sum, !.eval = "call"]
                      ELSE AfterMean([tr EXCEPT !.sum = sum, !.eval = "idle"],
                                     Frac(sum[1], sum[2] * len(tr.training_pairs)))
    /\ UNCHANGED <<solverVars, cm, probe>>

\* lines 166-167: a round begins
TrainRound ==
    /\ tr.pc = "round"
    /\ tr' = [tr EXCEPT !.improved_this_round = FALSE, !.k = 1, !.pc = "key"]
    /\ UNCHANGED <<solverVars, cm, probe>>

\* lines 169-172: the sweep of one weight begins
TrainKey ==
    /\ tr.pc = "key"
    /\ LET original_value == tr.best_cfg[WEIGHT_KEYS[tr.k]]
       IN  tr' = [tr EXCEPT !.original_value = original_value,
                            !.best_value_for_key = original_value,
                            !.best_acc_for_key = tr.best_accuracy,
                            !.m = 1,
                            !.pc = "mult"]
    /\ UNCHANGED <<solverVars, cm, probe>>

\* lines 180-193: the next candidate value; a value that is not positive is
\* skipped, another is written to a trial configuration, which is scored
TrainTry ==
    /\ tr.pc = "mult" /\ tr.eval = "idle"
    /\ LET key             == WEIGHT_KEYS[tr.k]
           candidate_value == Times(tr.original_value, MULTIPLIERS[tr.m])
           trial_cfg       == [tr.best_cfg EXCEPT ![key] = round6(candidate_value)]
       IN  tr' = IF candidate_value <= 0
                 THEN AfterTry(tr)
                 ELSE MeanCalled([tr EXCEPT !.candidate_value = candidate_value],
                                 FileOf(trial_cfg))
    /\ UNCHANGED <<solverVars, cm, probe>>

\* the next weight, or the end of the round
AfterKey(t) ==
    IF t.k < Len(WEIGHT_KEYS)
    THEN [t EXCEPT !.k = @ + 1, !.pc = "key"]
    ELSE [t EXCEPT !.pc = "round_end"]

\* lines 203-206: the best value found for the weight is kept
TrainUpdate ==
    /\ tr.pc = "update"
    /\ tr' = IF tr.best_value_for_key # tr.original_value
             THEN AfterKey([tr EXCEPT !.best_cfg[WEIGHT_KEYS[tr.k]] = round6(tr.best_value_for_key),
                                      !.best_accuracy = tr.best_acc_for_key,
                                      !.improved_this_round = TRUE])
             ELSE AfterKey(tr)
    /\ UNCHANGED <<solverVars, cm, probe>>

\* variant: the descent goes on to the round budget whatever the round found
TrainRoundEnd_ToBudget ==
    /\ tr.pc = "round_end"
    /\ tr' = IF tr.round_idx + 1 < tr.max_rounds
             THEN [tr EXCEPT !.round_idx = @ + 1, !.pc = "round"]
             ELSE [tr EXCEPT !.pc = "write"]
    /\ UNCHANGED <<solverVars, cm, probe>>

\* lines 216-219 and the range of the round loop (line 166)
TrainRoundEnd ==
    /\ tr.pc = "round_end"
    /\ tr' = IF ~tr.improved_this_round
             THEN [tr EXCEPT !.pc = "write"]
             ELSE IF tr.round_idx + 1 < tr.max_rounds
             THEN [tr EXCEPT !.round_idx = @ + 1, !.pc = "round"]
             ELSE [tr EXCEPT !.pc = "write"]
    /\ UNCHANGED <<solverVars, cm, probe>>

\* lines 222-246: the learned configuration is written and returned
TrainWrite ==
    /\ tr.pc = "write"
    /\ tr' = [tr EXCEPT !.output = FileOf(tr.best_cfg),
                        !.ret = [config |-> tr.best_cfg,
                                 baseline_accuracy |-> tr.baseline_accuracy,
                                 learned_accuracy |-> tr.best_accuracy],
                        !.pc = "returned"]
    /\ UNCHANGED <<solverVars, cm, probe>>

NextTrain ==
    \/ TrainBegin
    \/ TrainEvaluate
    \/ Next
    \/ TrainScored
    \/ TrainRound
    \/ TrainKey
    \/ TrainTry
    \/ TrainUpdate
    \/ TrainRoundEnd
    \/ TrainWrite

\* the notes of the training MIDI files
Midi(ps) == [i \in 0..(Len(ps) - 1) |->
                [pitch |-> ps[i + 1][1], start |-> ps[i + 1][2],
                 end |-> ps[i + 1][2] + 600, duration |-> 600, velocity |-> 64]]

Gt(ls) == [i \in 0..(Len(ls) - 1) |-> [hand |-> ls[i + 1][1], finger |-> ls[i + 1][2]]]

TrainPairs ==
    { [midi |-> Midi(<< <<60, 0>>, <<48, 40>>, <<72, 500>> >>),
       ground_truth |-> Gt(<< <<"L", 3>>, <<"R", 3>>, <<"L", 3>> >>)],
      [midi |-> Midi(<< <<60, 0>>, <<60, 500>>, <<48, 1000>> >>),
       ground_truth |-> Gt(<< <<"R", 2>>, <<"L", 5>> >>)],
      [midi |-> Midi(<< >>),
       ground_truth |-> Gt(<< <<"R", 1>> >>)] }

\* training sets: lists of pairs of different files
TrainingSets ==
    { ps \in UNION { [0..(k - 1) -> TrainPairs] : k \in 0..Cardinality(TrainPairs) } :
          \A i \in DOMAIN ps : \A j \in DOMAIN ps : i # j => ps[i] # ps[j] }

\* base configurations: weights (0.000064, 0.000192, ...) whose candidate
\* values stay whole numbers of millionths through max_rounds_default rounds,
\* one with weights 0, one without a span entry, and a path with no file
TrainConfigs ==
    { FileOf(MkCfg(FullSpan, 64 * Millionth, 192 * Millionth, 128 * Millionth,
                   256 * Millionth, 64 * Millionth, 64 * Millionth, 60)),
      FileOf(MkCfg(FullSpan, 64 * Millionth, 0, 0, 192 * Millionth, 128 * Millionth, 0, 64)),
      FileOf(MkCfg(Without(FullSpan, "1_3"), 64 * Millionth, 192 * Millionth, 128 * Millionth,
                   256 * Millionth, 64 * Millionth, 64 * Millionth, 60)),
      [exists |-> FALSE] }

\* a base configuration with one small weight, hand_switch_weight = 0.0000008,
\* and the training sets it is tried on: one file of two notes of pitch 60,
\* annotated for the left or for the right thumb
SmallConfigs ==
    { FileOf(MkCfg(FullSpan, 0, 0, 0, (4 * Millionth) \div 5, 0, 0, 47)) }

SmallSets ==
    { (0 :> [midi |-> Midi(<< <<60, 0>>, <<60, 500>> >>), ground_truth |-> Gt(<< l, l >>)]) :
          l \in { <<"L", 1>>, <<"R", 1>> } }

\* the arguments train is called with
TrainInputs == (TrainingSets \X TrainConfigs) \cup (SmallSets \X SmallConfigs)

InitTrain ==
    /\ Idle(Calls1)
    /\ config = [c \in Calls1 |-> [exists |-> FALSE]]
    /\ probe = NoProbe
    /\ \E args \in TrainInputs, r \in 0..max_rounds_default :
          tr = [pc |-> "entry", training_pairs |-> args[1], base |-> args[2], max_rounds |-> r,
                baseline_accuracy |-> None, best_cfg |-> None, best_accuracy |-> None,
                round_idx |-> 0, improved_this_round |-> FALSE, k |-> 0,
                original_value |-> 0, best_value_for_key |-> 0,
                best_acc_for_key |-> None, m |-> 0, candidate_value |-> 0,
                eval |-> "idle", file |-> [exists |-> FALSE], j |-> 0, sum |-> Frac(0, 1),
                output |-> [exists |-> FALSE], ret |-> None, exc |-> NoExc]

TrainEnded == tr.pc \in {"returned", "raised"}

\* the steps of train itself, and the steps of the scoring it calls
TrainOwn ==
    \/ TrainBegin
    \/ TrainRound
    \/ TrainKey
    \/ TrainTry
    \/ TrainUpdate
    \/ TrainRoundEnd
    \/ TrainWrite

TrainCalled ==
    \/ TrainEvaluate
    \/ Next
    \/ TrainScored

\* a scoring is under way
Evaluating == tr.eval \in {"call", "wait"}

\* train runs in one thread from its call to its return or raise, so a step
\* that is possible is taken: weak fairness of its own steps and of the steps
\* of the scoring. The latter is WF_vars(TrainCalled), that is
\* []<>(~ENABLED <<TrainCalled>>_vars) \/ []<><<TrainCalled>>_vars, with the
\* enabling condition written out: a scoring under way always has a step
TrainFair ==
    /\ WF_vars(TrainOwn)
    /\ ([]<>(~Evaluating) \/ []<><<TrainCalled>>_vars)

SpecTrain == InitTrain /\ [][NextTrain]_vars /\ TrainFair

\* the accuracy of configuration cfg on the training pairs
Accuracy(cfg) == mean_accuracy(tr.training_pairs, FileOf(cfg)).ret

\* the candidate values of the weight of value v
Candidates(v) ==
    { round6(c) : c \in { d \in { Times(v, MULTIPLIERS[j]) : j \in DOMAIN MULTIPLIERS } : d > 0 } }

\* the descent is inside a round
InRound == tr.pc \in {"round", "key", "mult", "update", "round_end"}

\* at the end of the sweep of a weight the configuration differs from the
\* one before in that weight at most, the value kept is the old one or a
\* candidate, no candidate has a better accuracy than the value kept, and
\* best_accuracy is the accuracy of the configuration kept
KeepsBest ==
    tr.pc = "update" =>
        LET key == WEIGHT_KEYS[tr.k]
        IN  /\ tr'.best_cfg = [tr.best_cfg EXCEPT ![key] = tr'.best_cfg[key]]
            /\ tr'.best_cfg[key] \in Candidates(tr.best_cfg[key]) \cup {tr.best_cfg[key]}
            /\ \A c \in Candidates(tr.best_cfg[key]) :
                  ~FracLess(tr'.best_accuracy, Accuracy([tr.best_cfg EXCEPT ![key] = c]))
            /\ FracEq(tr'.best_accuracy, Accuracy(tr'.best_cfg))
            /\ tr'.improved_this_round
                  = (tr.improved_this_round \/ tr'.best_cfg # tr.best_cfg)

\* a round starts with no weight changed; after a round that changed none
\* the descent is over, and another round starts only within the budget
StopsWhenUnchanged ==
    /\ tr.pc = "round" => ~tr'.improved_this_round
    /\ tr.pc = "round_end" =>
          /\ ~tr.improved_this_round => tr'.pc = "write"
          /\ tr'.pc \in {"write", "round"}
          /\ tr'.pc = "round" => tr'.round_idx = tr.round_idx + 1
    /\ tr.pc # "round_end" => tr'.round_idx = tr.round_idx

----------------------------------------------------------------------------
(* The forward recurrence, the terminal state and the path (checked under *)
(* Spec)                                                                   *)

\* the enumeration order L1, L2, L3, L4, L5, R1, R2, R3, R4, R5
Enumeration ==
    << <<"L", 1>>, <<"L", 2>>, <<"L", 3>>, <<"L", 4>>, <<"L", 5>>,
       <<"R", 1>>, <<"R", 2>>, <<"R", 3>>, <<"R", 4>>, <<"R", 5>> >>

\* row i of the tables of call c has been written
RowWritten(c, i) == i \in DOMAIN dp[c] /\ DOMAIN dp[c][i] # {}

\* dp[i-1][source] + total_cost(source, state, ...) in call c
Via(c, i, source, state) ==
    dp[c][i - 1][source]
    + total_cost(cm[c], source[2], state[2],
                 notes[c][i - 1].pitch, notes[c][i].pitch,
                 source[1], state[1], Get(notes[c][i], "chord_size", 1))

\* the first position of Enumeration whose state has the least value of f
FirstLeast(f) ==
    CHOOSE k \in DOMAIN Enumeration :
        /\ \A j \in DOMAIN Enumeration : f[Enumeration[k]] <= f[Enumeration[j]]
        /\ \A j \in 1..(k - 1) : f[Enumeration[j]] > f[Enumeration[k]]

\* C21: for every index i >= 1 and destination state, dp[i][state] is the
\* minimum over the 10 source states of dp[i-1][source] + total_cost(source,
\* state, pitch of note i-1, pitch of note i, chord size of note i), and the
\* backpointer is the first source attaining it in the order L1..L5, R1..R5.
C21_Recurrence ==
    \A c \in DOMAIN pc : \A i \in DOMAIN dp[c] :
        (i >= 1 /\ RowWritten(c, i)) =>
            /\ DOMAIN dp[c][i] = Range(Enumeration)
            /\ DOMAIN bp[c][i] = Range(Enumeration)
            /\ \A state \in Range(Enumeration) :
                 LET via == [source \in Range(Enumeration) |-> Via(c, i, source, state)]
                     k   == FirstLeast(via)
                 IN  /\ dp[c][i][state] = via[Enumeration[k]]
                     /\ \A source \in Range(Enumeration) : dp[c][i][state] <= via[source]
                     /\ bp[c][i][state] = Enumeration[k]

\* C21 witness: at index 2 of a finished call two sources tie on the minimum
\* for a destination, the earlier one is the backpointer, and another
\* source is strictly dearer
C21_Witness ==
    \E c \in DOMAIN pc :
        /\ Returns(c) /\ len(notes[c]) = 3
        /\ \E state \in Range(Enumeration) :
             \E j \in DOMAIN Enumeration, k \in DOMAIN Enumeration :
                /\ j < k
                /\ bp[c][2][state] = Enumeration[j]
                /\ Via(c, 2, Enumeration[k], state) = dp[c][2][state]
                /\ Via(c, 2, Enumeration[j], state) = dp[c][2][state]
                /\ \E x \in Range(Enumeration) : Via(c, 2, x, state) > dp[c][2][state]

\* the terminal state of call c: the first element of path, and once the
\* call has returned the label of the last note
Terminal(c) == path[c][1]

\* C22: the terminal state chosen by solve has the minimum cumulative cost
\* at index n-1, and among the states with that cost it is the first in the
\* order L1..L5, R1..R5.
C22_TerminalState ==
    \A c \in DOMAIN pc :
        Len(path[c]) > 0 =>
            LET n    == len(notes[c])
                last == dp[c][n - 1]
            IN  /\ \A s \in Range(Enumeration) : last[Terminal(c)] <= last[s]
                /\ Terminal(c) = Enumeration[FirstLeast(last)]
                /\ Returns(c) => Labels(c)[n - 1] = Terminal(c)

\* C22 witness: a returned call on three notes whose last row has its
\* minimum at two states, neither of them L1; the label of the last note is
\* the earlier one
C22_Witness ==
    \E c \in DOMAIN pc :
        /\ Returns(c) /\ len(notes[c]) = 3
        /\ Labels(c)[2] # Enumeration[1]
        /\ \E s \in Range(Enumeration) :
              /\ s # Labels(c)[2]
              /\ dp[c][2][s] = dp[c][2][Labels(c)[2]]
        /\ dp[c][2][Enumeration[1]] > dp[c][2][Labels(c)[2]]

\* the fallback of line 115 stays: no state at index n-1 is cheaper than
\* math.inf
TerminalFallback(c) ==
    \A s \in DOMAIN dp[c][len(notes[c]) - 1] : ~(dp[c][len(notes[c]) - 1][s] < Inf)

\* the fallback of lines 125-127 is about to be taken
TraceFallback(c) == bp[c][idx[c]][Last(path[c])] = None

\* C23: the returned state sequence follows the backpointers: the state of
\* note i-1 is bp[i][state of note i] for every i from 1 to n-1; for i >= 1
\* every backpointer is a real state and every dp entry is finite, so the
\* fallback ("R", 1) is taken neither for the terminal state nor for a
\* missing backpointer.
C23_FollowsBackpointers ==
    \A c \in DOMAIN pc :
        /\ \A i \in DOMAIN dp[c] :
              RowWritten(c, i) =>
                 /\ \A s \in DOMAIN dp[c][i] : dp[c][i][s] < Inf
                 /\ i >= 1 => \A s \in DOMAIN bp[c][i] :
                                 bp[c][i][s] \in Range(Enumeration)
        /\ pc[c] = "select" => ~TerminalFallback(c)
        /\ pc[c] = "trace" => ~TraceFallback(c)
        /\ \A k \in 1..(Len(path[c]) - 1) :
              path[c][k + 1] = bp[c][len(notes[c]) - k][path[c][k]]
        /\ (Returns(c) /\ len(notes[c]) > 0) =>
              \A i \in 1..(len(notes[c]) - 1) :
                  Labels(c)[i - 1] = bp[c][i][Labels(c)[i]]

\* C23 witness: three returned labels, all different, the first not
\* ("R", 1), each the backpointer of the next
C23_Witness ==
    \E c \in DOMAIN pc :
        /\ Returns(c) /\ len(notes[c]) = 3
        /\ Cardinality({Labels(c)[0], Labels(c)[1], Labels(c)[2]}) = 3
        /\ Labels(c)[0] # <<"R", 1>>
        /\ Labels(c)[0] = bp[c][1][Labels(c)[1]]
        /\ Labels(c)[1] = bp[c][2][Labels(c)[2]]

----------------------------------------------------------------------------
(* The split pitch (checked under SpecSplit) *)

\* values of split_pitch: below, between and on the pitches of NoteSet
SplitPitches == {47, 60, 64}

\* the weights of the configurations that differ in split_pitch only: the
\* base weights, a free hand switch, and a hand switch that is rewarded
\* (the constructor accepts a weight of any sign)
SplitWeights(sp) ==
    { MkCfg(FullSpan, 1, 3, 2, 4, 1, 1, sp),
      MkCfg(FullSpan, 0, 2, 1, 0, 1, 3, sp),
      MkCfg(FullSpan, 1, 3, 2, 0 - 2, 1, 1, sp) }

\* solve on the same notes with two configurations that differ in
\* split_pitch only
\* the sorted sequences of one, two and three notes
SplitSeqs ==
    { ns \in UNION { [0..(k - 1) -> NoteSet] : k \in {1, 2, 3} } : SortedNotes(ns) }

InitSplit ==
    /\ notes \in [Calls2 -> SplitSeqs]
    /\ notes[1] = notes[2]
    /\ config \in [Calls2 -> {FileOf(k) : k \in UNION {SplitWeights(sp) : sp \in SplitPitches}}]
    /\ config[1].content.split_pitch < config[2].content.split_pitch
    /\ config[2].content = [config[1].content EXCEPT !.split_pitch = config[2].content.split_pitch]
    /\ StartOfCall(Calls2)

SpecSplit == InitSplit /\ [][NextInTurn]_vars

\* the hand split_pitch implies for a pitch
Implied(m, pitch) == IF pitch <= m.split_pitch THEN "L" ELSE "R"

\* dp[i-1][source] + total_cost(source, state, ...) in call c, priced by
\* cost model m
ViaWith(m, c, i, source, state) ==
    dp[c][i - 1][source]
    + total_cost(m, source[2], state[2],
                 notes[c][i - 1].pitch, notes[c][i].pitch,
                 source[1], state[1], Get(notes[c][i], "chord_size", 1))

\* the rows from index 1 on, the terminal state and the path of call c are
\* what they are under the other split pitch
SplitNotRead(c, d) ==
    /\ \A i \in DOMAIN dp[c] :
          (i >= 1 /\ RowWritten(c, i)) =>
              \A state \in Range(Enumeration) :
                  LET via == [source \in Range(Enumeration) |->
                                 ViaWith(cm[d], c, i, source, state)]
                  IN  /\ dp[c][i][state] = via[Enumeration[FirstLeast(via)]]
                      /\ bp[c][i][state] = Enumeration[FirstLeast(via)]
    /\ (RowWritten(c, 0) /\ RowWritten(d, 0) /\ dp[c][0] = dp[d][0]) =>
          /\ \A i \in DOMAIN dp[c] :
                (RowWritten(c, i) /\ RowWritten(d, i)) =>
                    dp[c][i] = dp[d][i] /\ bp[c][i] = bp[d][i]
          /\ (Returns(c) /\ Returns(d)) => result[c] = result[d]

\* no state is excluded: every written row prices all ten states
NoStateExcluded(c) ==
    \A i \in DOMAIN dp[c] :
        RowWritten(c, i) =>
            /\ DOMAIN dp[c][i] = Range(Enumeration)
            /\ \A s \in Range(Enumeration) : dp[c][i][s] < Inf

\* the labelings of the notes of call c, and those that keep note i on the
\* hand split_pitch implies for it
Labelings(c) == [DOMAIN notes[c] -> StateKeys]

OnImpliedHand(c, i) ==
    { lab \in Labelings(c) : lab[i][1] = Implied(cm[c], notes[c][i].pitch) }

\* the least total cost of the labelings in S
LeastCost(c, S) == Min({ LabelingCost(cm[c], notes[c], lab) : lab \in S })

\* when some labeling is cheaper than every labeling that keeps note i on
\* the implied hand, the returned labeling has note i on the other hand
OtherHandWhenCheaper(c) ==
    LET least == LeastCost(c, Labelings(c))
    IN  /\ LabelingCost(cm[c], notes[c], Labels(c)) = least
        /\ \A i \in DOMAIN notes[c] :
              least < LeastCost(c, OnImpliedHand(c, i))
                  => Labels(c)[i][1] # Implied(cm[c], notes[c][i].pitch)

\* C24: split_pitch influences only the initial costs at index 0: the
\* forward recurrence, the terminal selection and the backtracking give the
\* same under another split_pitch, no state is excluded because of it, and
\* a note (the first included) goes to the hand opposite to the implied one
\* when that is cumulatively cheaper.
C24_SplitBiasOnly ==
    /\ \A c \in DOMAIN pc : NoStateExcluded(c)
    /\ \A c \in DOMAIN pc : \A d \in DOMAIN pc :
          (c # d /\ cm[c].constructed /\ cm[d].constructed
             /\ cm[c].split_pitch # cm[d].split_pitch) => SplitNotRead(c, d)
    /\ (\A c \in DOMAIN pc : Returns(c)) =>
          \A c \in DOMAIN pc : len(notes[c]) > 0 => OtherHandWhenCheaper(c)

\* C24 witness: both calls have returned the same three labels although
\* their split pitches imply different hands for the second note, and in
\* the second call the first note is on the implied hand and the second and
\* third are not, every labeling that keeps them there being dearer
C24_Witness ==
    /\ DOMAIN pc = Calls2
    /\ Returns(1) /\ Returns(2) /\ len(notes[1]) = 3
    /\ cm[1].split_pitch # cm[2].split_pitch
    /\ cm[2].hand_switch_weight > 0
    /\ Implied(cm[1], notes[1][1].pitch) # Implied(cm[2], notes[2][1].pitch)
    /\ result[1] = result[2]
    /\ Labels(2)[0][1] = Implied(cm[2], notes[2][0].pitch)
    /\ \A i \in 1..2 :
          /\ Labels(2)[i][1] # Implied(cm[2], notes[2][i].pitch)
          /\ LabelingCost(cm[2], notes[2], Labels(2)) < LeastCost(2, OnImpliedHand(2, i))

----------------------------------------------------------------------------
(* The chord penalty (checked under SpecChord) *)

\* pitch sequences of one, two and three notes, one note per onset
PitchSeqs == UNION { [0..(k - 1) -> {60, 64, 72}] : k \in {1, 2, 3} }

\* chord sizes without and with a penalty
PenaltySizes == {1, 6, 7}

\* values of chord_penalty_weight
PenaltyWeights == {0, 1, 3, HugeWeight}

\* the first call has every chord_size 1; the second has the same pitches
\* with any chord sizes, and the same configuration with any
\* chord_penalty_weight
InitChord ==
    /\ \E ps \in PitchSeqs : \E cs \in [DOMAIN ps -> PenaltySizes] :
          notes = (1 :> [i \in DOMAIN ps |-> [pitch |-> ps[i], start |-> i, chord_size |-> 1]])
                  @@ (2 :> [i \in DOMAIN ps |-> [pitch |-> ps[i], start |-> i,
                                                 chord_size |-> cs[i]]])
    /\ \E k \in {BaseContent, MkCfg(FullSpan, 2, 1, 5, 1, 3, 2, 47)}, w \in PenaltyWeights :
          config = (1 :> FileOf(k))
                   @@ (2 :> FileOf([k EXCEPT !.chord_penalty_weight = w]))
    /\ StartOfCall(Calls2)

SpecChord == InitChord /\ [][NextInTurn]_vars

\* calls c and d differ in chord sizes and chord_penalty_weight at most
SameButChords(c, d) ==
    /\ DOMAIN notes[c] = DOMAIN notes[d]
    /\ \A i \in DOMAIN notes[c] :
          notes[c][i].pitch = notes[d][i].pitch /\ notes[c][i].start = notes[d][i].start
    /\ config[c].exists /\ config[d].exists
    /\ config[d].content
          = [config[c].content EXCEPT !.chord_penalty_weight
                                         = config[d].content.chord_penalty_weight]

\* the original statement of C25: the chord penalty never changes the
\* labeling, for any chord_size values and any chord_penalty_weight.
C25_ChordNeverMatters ==
    \A c \in DOMAIN pc : \A d \in DOMAIN pc :
        (SameButChords(c, d) /\ Returns(c) /\ Returns(d)) => Labels(c) = Labels(d)

\* every float sum of call c is exact: the weights are small whole numbers
ExactSums(c) == \A k \in WeightKeys : config[c].content[k] < HugeWeight

\* C25 (amended): for any chord_size values and any chord_penalty_weight
\* for which the cost sums are computed exactly, solve returns the same
\* (hand, finger) sequence; the chord_size of the first note is not read.
C25_ChordIrrelevantWhenExact ==
    \A c \in DOMAIN pc : \A d \in DOMAIN pc :
        (SameButChords(c, d) /\ ExactSums(c) /\ ExactSums(d) /\ Returns(c) /\ Returns(d))
            => Labels(c) = Labels(d)

\* C25 witness: three notes, the second call with chords of 7, 6 and 7 notes
\* and another chord_penalty_weight; it has paid penalties and returned the
\* labels of the first call
C25_Witness ==
    /\ DOMAIN pc = Calls2
    /\ SameButChords(1, 2) /\ ExactSums(1) /\ ExactSums(2)
    /\ Returns(1) /\ Returns(2) /\ len(notes[1]) = 3
    /\ [i \in 0..2 |-> notes[2][i].chord_size] = (0 :> 7) @@ (1 :> 6) @@ (2 :> 7)
    /\ cm[2].chord_penalty_weight > cm[1].chord_penalty_weight
    /\ OptimalCost(2) = OptimalCost(1) + 3 * cm[2].chord_penalty_weight
    /\ Labels(1) = Labels(2)
    /\ Cardinality({Labels(1)[0], Labels(1)[1], Labels(1)[2]}) > 1

----------------------------------------------------------------------------
(* The two hands (checked under SpecCost) *)

OtherHand(hand) == IF hand = "L" THEN "R" ELSE "L"

----------------------------------------------------------------------------
(* The descent of train (checked under SpecTrain) *)

\* train has scored the baseline and holds a best configuration
Descending == tr.best_cfg # None

\* no step of train lowers best_accuracy
BestNeverDecreases ==
    (Descending /\ tr'.best_cfg # None) => ~FracLess(tr'.best_accuracy, tr.best_accuracy)

\* the returned learned_accuracy is not below baseline_accuracy
LearnedAtLeastBaseline ==
    tr.pc = "returned" => ~FracLess(tr.ret.learned_accuracy, tr.ret.baseline_accuracy)

\* the best configuration, the returned one and the written one have the
\* keys of the base configuration and its values outside the six weights
OnlyWeightsChange ==
    /\ Descending =>
          /\ DOMAIN tr.best_cfg = DOMAIN tr.base.content
          /\ \A k \in DOMAIN tr.best_cfg \ WeightKeys : tr.best_cfg[k] = tr.base.content[k]
    /\ tr.pc = "returned" =>
          /\ tr.ret.config = tr.best_cfg
          /\ tr.output = FileOf(tr.best_cfg)

\* a weight that is positive in the base configuration is positive in the
\* best configuration
PositiveStaysPositive ==
    Descending =>
        \A k \in WeightKeys : tr.base.content[k] > 0 => tr.best_cfg[k] > 0

\* C27: during train the tracked best accuracy never decreases, so the
\* returned learned_accuracy is >= baseline_accuracy; train changes only the
\* six weight keys, leaving max_comfortable_span and split_pitch unchanged,
\* and every positive weight stays strictly positive.
C27_TrainPreserves ==
    /\ [][BestNeverDecreases]_vars
    /\ [](LearnedAtLeastBaseline /\ OnlyWeightsChange /\ PositiveStaysPositive)

\* the parts of C27 that do not concern the sign of the weights
C27_AccuracyAndFrozenKeys ==
    /\ [][BestNeverDecreases]_vars
    /\ [](LearnedAtLeastBaseline /\ OnlyWeightsChange)

\* train has returned a configuration in which a weight that was positive
\* is 0, with a better accuracy than the baseline
C27_WeightLost ==
    /\ tr.pc = "returned"
    /\ tr.base.content["hand_switch_weight"] > 0
    /\ tr.ret.config["hand_switch_weight"] = 0
    /\ FracLess(tr.ret.baseline_accuracy, tr.ret.learned_accuracy)

\* no candidate value lies halfway between two millionths
NoHalfMillionths ==
    tr.pc = "mult" =>
        (2 * (Times(tr.original_value, MULTIPLIERS[tr.m]) % Millionth)) # Millionth

----------------------------------------------------------------------------
(* evaluate_config (checked under SpecEvaluate) *)

\* evaluator.py lines 146-165: solve has ended; what it raised goes to the
\* caller, and what it returned is scored against the ground truth
CallEvaluateConfig ==
    /\ Finished(1) /\ probe = NoProbe
    /\ \E g \in GroundTruths :
         LET args == [ground_truth |-> g]
             r    == Scores(result[1], g)
         IN  probe' = IF ~Returns(1)
                      THEN Raised("evaluate_config", args, exc[1])
                      ELSE IF r.exc = NoExc
                      THEN Returned("evaluate_config", args, r.ret)
                      ELSE Raised("evaluate_config", args, r.exc)
    /\ UNCHANGED <<solverVars, cm, tr>>

NextEvaluate ==
    \/ Next
    \/ CallEvaluateConfig

SpecEvaluate == InitScore /\ [][NextEvaluate]_vars

\* the notes among the first m on which predicted and ground truth agree in
\* the hand, and in the hand and the finger
HandMatches(predicted, ground_truth, m) ==
    { k \in 0..(m - 1) : predicted[k].hand = ground_truth[k].hand }

NoteMatches(predicted, ground_truth, m) ==
    { k \in HandMatches(predicted, ground_truth, m) :
          predicted[k].finger = ground_truth[k].finger }

\* C28: evaluate_config never fails with a length mismatch: the predicted
\* and the ground-truth sequence are scored on the first min(len, len) notes,
\* all three metrics are 0.0 when either sequence is empty, and otherwise
\* the notes with matching hand and finger are no more than those with
\* matching hand, so that note_accuracy <= hand_accuracy.
C28_EvaluateConfig ==
    probe.fn = "evaluate_config" =>
        /\ probe.exc # LengthMismatch
        /\ Returns(1) =>
              LET predicted    == result[1]
                  ground_truth == probe.args.ground_truth
                  m            == Min2(len(predicted), len(ground_truth))
                  hands        == HandMatches(predicted, ground_truth, m)
                  both         == NoteMatches(predicted, ground_truth, m)
                  metrics      == probe.ret[1]
              IN  /\ probe.exc = NoExc
                  /\ m = 0 => metrics = NoMetrics
                  /\ m > 0 =>
                        /\ metrics.note_accuracy = Frac(Cardinality(both), m)
                        /\ metrics.hand_accuracy = Frac(Cardinality(hands), m)
                        /\ Cardinality(both) <= Cardinality(hands)
                        /\ ~FracLess(metrics.hand_accuracy, metrics.note_accuracy)

\* C28 witness: solve returned three labels, evaluate_config scored them
\* against two expert labels, and fewer notes match in hand and finger than
\* in the hand
C28_Witness ==
    /\ probe.fn = "evaluate_config" /\ probe.exc = NoExc
    /\ Returns(1) /\ len(result[1]) = 3
    /\ len(probe.args.ground_truth) = 2
    /\ FracLess(probe.ret[1].note_accuracy, probe.ret[1].hand_accuracy)

\* evaluate_config was given an empty ground truth for a score of notes
C28_WitnessEmpty ==
    /\ probe.fn = "evaluate_config" /\ probe.exc = NoExc
    /\ Returns(1) /\ len(result[1]) = 2
    /\ len(probe.args.ground_truth) = 0
    /\ probe.ret[1] = NoMetrics

====
